---- MODULE Spec2Model ----
(***************************************************************************)
(* Offline-first synchronization engine of the POS client                  *)
(* (src/services/sync.ts): the network listener with its stabilization     *)
(* timer, the durable sync_queue, the four drains of syncAll and the sync  *)
(* history.  Time is the wall clock in milliseconds.  One action is one    *)
(* run of the JavaScript event loop: a handler or the continuation of an   *)
(* async function from one completed await on I/O to the next.             *)
(***************************************************************************)
EXTENDS Integers, Sequences, FiniteSets

\* ------------------------------------------------------------ constants

\* if (offlineDuration > 3000)
OFFLINE_THRESHOLD == 3000

\* setTimeout(async () => {...}, 2000) of the network listener
STABILIZATION_DELAY == 2000

\* the unsynced bills n earlier sales have left in table bills, the oldest
\* first, each with the next invoice number
PastBills(n) ==
  [k \in 1..n |-> [created_at |-> k - n, is_synced |-> FALSE,
                   invoice_number |-> k]]

\* setTimeout(() => syncAll(), 500) of queueOperation
FAST_PATH_DELAY == 500

\* history.slice(0, 20)
HISTORY_LIMIT == 20

\* SELECT ... FROM bills ... LIMIT 50
BILL_LIMIT == 50

\* JavaScript null (offlineTimestamp, syncTimeout, synced_at)
Null == -1

\* ------------------------------------------------------------ bounds

\* the clock advances in steps: of the fast-path delay where sync cycles are
\* followed, of the largest step that divides both delays of the listener
\* where the network monitor is followed
Quantum == FAST_PATH_DELAY
MonitorQuantum == STABILIZATION_DELAY \div 2

\* clock steps for which a run of the sync engine, of the listener alone, of
\* the network monitor with work to upload, and a run in which everything
\* due happens are followed
SyncTicks == 2
MonitorTicks == 9
FlapTicks == 7
FairTicks == 7

\* rows ever inserted into sync_queue, bills and inventory_items together,
\* in a run of the sync engine, of the four drains, of the network monitor
MaxRows == 2
DrainRows == 4
MonitorRows == 1

\* rows ever inserted into sync_queue in a run of the four drains
DrainOps == 1
\* rows and queued operations of the repeated cycles
RepeatRows == 3
RepeatOps == 2
\* queued operations and calls of initialSync in a run of the engine beside
\* initialSync
CatalogRows == 2
CatalogRuns == 1
\* rows ever inserted in a run about a credential that expires
AuthRows == 2
\* inventory items created in a run about the inventory drain
InventoryRows == 3
\* the bills a device holds unsynced when a run about the bill backlog
\* starts, at most, and the bills created in that run
BacklogBills == 51
BacklogNew == 1

\* a run of initialSync: clock steps, local bills, calls of initialSync and
\* the bills of one download
SeedTicks == 2
SeedRows == 1
SeedRuns == 2
SeedDownload == 2

\* a run about the sync history: clock steps, rows of sync_queue, calls of
\* initialSync
HistoryTicks == 3
HistoryRows == 1
HistoryRuns == 1

\* invocations of syncAll that can be in flight at the same time
Slots == {1, 2}

EntityTypes == {"category", "item"}
EntityIds == {"e1"}

\* the ids of the categories and items the server holds
ServerIds == {"e1", "e2"}

\* the invoice numbers of the bills the server holds
InvoiceNumbers == {1, 2}

VARIABLES
  bound,             \* the bounds of the run: quantum, ticks, rows, ops, slots,
                     \* the entity types it queues operations for, whether
                     \* a user is logged in, the calls of initialSync, the
                     \* history entries of earlier runs, the categories and
                     \* items of the server, the bills of a download and the
                     \* unsynced bills the device holds at the start
  now,               \* Date.now()
  net,               \* the device's connectivity, what NetInfo.fetch() reports
  isOnline,          \* let isOnline
  offlineTimestamp,  \* let offlineTimestamp
  syncTimeout,       \* let syncTimeout: handle of the last stabilization timer
  monitorTimers,     \* pending stabilization timers (their due times)
  fastTimers,        \* pending fast-path timers of queueOperation (due times)
  enqueuing,         \* calls of queueOperation awaiting getNetworkStatus()
  queue,             \* table sync_queue, row id = index
  bills,             \* table bills, row id = index
  inventory,         \* table inventory_items, row id = index
  userData,          \* whether getUserData() finds a stored user
  categories,        \* table categories, by id
  items,             \* table items, by id
  item_categories,   \* table item_categories: pairs <<item_id, category_id>>
  invoice_sequences, \* table invoice_sequences: the last sequence issued
  seed,              \* the invocation of initialSync in flight
  cyc,               \* the invocations of syncAll in flight
  history,           \* AsyncStorage 'sync_history', newest first
  lastSyncTime,      \* AsyncStorage 'last_sync_time'
  asyncStorage,      \* the invocations whose call on 'sync_history' or
                     \* 'last_sync_time' AsyncStorage has not answered, in
                     \* the order of their calls
  wentOfflineAt,     \* while isOnline is false, when it became false
  failedBatch,       \* per entity type, the batch whose call failed and that
                     \* no later SELECT of the type has followed yet
  event              \* what this step did: the listener's decision on an
                     \* offline->online event, a step of syncAll, or what
                     \* syncAll returned

vars == <<bound, now, net, isOnline, offlineTimestamp, syncTimeout,
          monitorTimers, fastTimers, enqueuing, queue, bills, inventory,
          userData, categories, items, item_categories, invoice_sequences,
          seed, cyc, history, lastSyncTime, asyncStorage, wentOfflineAt,
          failedBatch, event>>

netVars == <<net, isOnline, offlineTimestamp, syncTimeout, monitorTimers,
             wentOfflineAt>>
timerVars == <<fastTimers, enqueuing>>
storeVars == <<queue, bills, inventory, userData>>
historyVars == <<history, lastSyncTime>>
catalogVars == <<categories, items, item_categories>>
seedVars == <<catalogVars, invoice_sequences, seed>>
restVars == <<historyVars, failedBatch>>

\* the time up to which the run is followed
horizon == bound.ticks * bound.quantum

\* ------------------------------------------------------------ helpers

Range(s) == {s[i] : i \in DOMAIN s}

RemoveAt(s, i) == [j \in 1..(Len(s) - 1) |-> IF j < i THEN s[j] ELSE s[j + 1]]

Min(a, b) == IF a <= b THEN a ELSE b

\* the sequences that list every element of S once
Perms(S) ==
  {f \in [1..Cardinality(S) -> S] :
     \A i, j \in 1..Cardinality(S) : i # j => f[i] # f[j]}

\* SELECT ... ORDER BY created_at ASC over the rows ids of table rows: SQL
\* leaves the order of rows with equal created_at open
RECURSIVE OrderByCreatedAt(_, _)
OrderByCreatedAt(rows, ids) ==
  IF ids = {}
    THEN {<<>>}
    ELSE LET first == {i \in ids : \A j \in ids :
                                     rows[i].created_at <= rows[j].created_at}
         IN UNION {{<<i>> \o rest : rest \in OrderByCreatedAt(rows, ids \ {i})} :
                     i \in first}

\* ... LIMIT n
Limit(s, n) == SubSeq(s, 1, Min(Len(s), n))

\* { success, synced } of one drain
DrainResult(success, synced) ==
  [success |-> success, synced |-> synced, ran |-> TRUE]

\* a drain that syncAll has not called, or that has not returned yet
NoResult == [success |-> FALSE, synced |-> 0, ran |-> FALSE]

\* unauthorized: the server has answered a remote call of the invocation
\* with 401; request: the body of the batch call in flight
IdleCycle ==
  [pc |-> "idle", caller |-> "none", batch |-> <<>>, request |-> <<>>, next |-> 0,
   errorCount |-> 0, stamp |-> Null, write |-> <<>>, unauthorized |-> FALSE,
   atStart |-> [categories |-> 0, items |-> 0, bills |-> 0],
   categories |-> NoResult, items |-> NoResult, bills |-> NoResult,
   inventory |-> NoResult]

\* the object syncAll returns when getNetworkStatus() says offline
OfflineResult ==
  [success |-> FALSE, categoriesSynced |-> 0, itemsSynced |-> 0,
   billsSynced |-> 0, inventorySynced |-> 0]

\* a step that is neither an offline->online event nor a step of syncAll.
\* since and pending: when the closed offline interval began and the timers
\* that were pending ("skipped", "scheduled"); rec: the invocation before
\* its step ("step") or as it returned ("returned"); result: what it returned
NoEvent ==
  [kind |-> "none", since |-> Null, pending |-> {}, result |-> OfflineResult,
   rec |-> IdleCycle]

Quiet == event' = NoEvent

\* a table without rows
NoRows == [id \in {} |-> Null]

\* no initialSync in flight; result is what the last one returned. download:
\* the downloaded bills its loop went through; thrown: the remote call that
\* threw in the last step; fetched: the downloaded items with their
\* category_ids
NoSeedResult == [success |-> FALSE, error |-> "none"]

IdleSeed ==
  [pc |-> "idle", runs |-> 0, stamp |-> Null, at |-> Null, categories |-> 0,
   items |-> 0, download |-> <<>>, thrown |-> {}, write |-> <<>>,
   fetched |-> <<>>, result |-> NoSeedResult]

\* ------------------------------------------------------------ initial state

\* the sync_history n earlier cycles have left, each having uploaded one
\* bill, the newest first
PastHistory(n) ==
  [k \in 1..n |-> [id |-> k - n, timestamp |-> k - n,
                   items |-> <<[name |-> "Bills", count |-> 1]>>]]

InitWith(bounds) ==
  /\ bound = bounds
  /\ now = bounds.quantum
  /\ net = TRUE
  /\ isOnline = TRUE
  /\ offlineTimestamp = Null
  /\ syncTimeout = Null
  /\ monitorTimers = {}
  /\ fastTimers = <<>>
  /\ queue = <<>>
  /\ bills = PastBills(bounds.backlog)
  /\ inventory = <<>>
  /\ userData = bounds.user
  /\ categories = NoRows
  /\ items = NoRows
  /\ item_categories = {}
  /\ invoice_sequences = bounds.backlog
  /\ seed = IdleSeed
  /\ cyc = [c \in Slots |-> IdleCycle]
  /\ history = PastHistory(bounds.past)
  /\ lastSyncTime = Null
  /\ asyncStorage = <<>>
  /\ enqueuing = 0
  /\ wentOfflineAt = Null
  /\ failedBatch = [t \in EntityTypes |-> <<>>]
  /\ event = NoEvent

\* ------------------------------------------------------------ the clock

\* the awaits of syncAll and initialSync on 'sync_history' and
\* 'last_sync_time'
StorageAwaits == {"history", "historySave", "lastSync"}

\* the invocation of initialSync, next to the slots of syncAll
SeedSlot == 0

\* AsyncStorage answers its calls in their order: invocation p has the
\* answer of its call and goes on to pc
Answers(p) == asyncStorage # <<>> /\ Head(asyncStorage) = p

Requeue(p, pc) ==
  LET Other(q) == q # p
      rest == SelectSeq(asyncStorage, Other)
  IN IF pc \in StorageAwaits THEN Append(rest, p) ELSE rest

\* the awaits of syncAll on the device itself: NetInfo.fetch() and AsyncStorage
LocalAwaits == {"net", "user", "history", "historySave", "lastSync"}

\* time passes; a due timer may fire late, never early, and a remote call
\* may take any time.  NetInfo.fetch() and AsyncStorage answer within the
\* quantum.
Tick ==
  /\ now + bound.quantum <= horizon
  /\ enqueuing = 0
  /\ \A c \in Slots : cyc[c].pc \notin LocalAwaits
  /\ seed.pc \notin LocalAwaits
  /\ now' = now + bound.quantum
  /\ Quiet
  /\ UNCHANGED <<bound, asyncStorage, netVars, timerVars, storeVars, seedVars, cyc, restVars>>

\* the run still shows a timer set now with this delay coming due
BeforeHorizon(delay) == now + delay <= horizon

\* ------------------------------------------------------------ network listener

\* a listener that never cancels the pending stabilization timer
ClearTimeoutNever(timers, handle) == timers

\* a listener that takes an offline interval of exactly 3000 ms for genuine
QualifiesAtThreshold(offlineDuration) == offlineDuration >= OFFLINE_THRESHOLD

\* clearTimeout(syncTimeout): a pending timer is dropped, a fired one is not there
ClearTimeout(timers, handle) == timers \ {handle}

\* if (offlineDuration > 3000): the offline interval was no flap
Qualifies(offlineDuration) == offlineDuration > OFFLINE_THRESHOLD

\* a listener that takes every notification of an online device for a
\* transition
TransitionAnyOnline(wasOffline, online) == online

\* if (wasOffline && isOnline): the notification is an offline->online
\* transition
Transition(wasOffline, online) == wasOffline /\ online

\* NetInfo.addEventListener(state => ...) with state.isConnected = connected
NetInfoEvent(connected) ==
  LET wasOffline == ~isOnline
      offlineDuration ==
        IF offlineTimestamp # Null /\ offlineTimestamp # 0
          THEN now - offlineTimestamp ELSE 0
  IN
  /\ net' = connected
  /\ isOnline' = connected
  /\ wentOfflineAt' = IF connected THEN Null
                      ELSE IF ~wasOffline THEN now ELSE wentOfflineAt
  /\ IF ~connected
       THEN \* going offline: track the time; staying offline: nothing
            /\ offlineTimestamp' = IF ~wasOffline THEN now ELSE offlineTimestamp
            /\ Quiet
            /\ UNCHANGED <<syncTimeout, monitorTimers>>
       ELSE IF ~Transition(wasOffline, connected)
         THEN /\ Quiet
              /\ UNCHANGED <<offlineTimestamp, syncTimeout, monitorTimers>>
         ELSE IF Qualifies(offlineDuration)
           THEN /\ monitorTimers' =
                     ClearTimeout(monitorTimers, syncTimeout)
                       \cup {now + STABILIZATION_DELAY}
                /\ syncTimeout' = now + STABILIZATION_DELAY
                /\ event' = [NoEvent EXCEPT !.kind = "scheduled",
                                            !.since = wentOfflineAt,
                                            !.pending = monitorTimers]
                /\ UNCHANGED offlineTimestamp
           ELSE /\ offlineTimestamp' = Null
                /\ event' = [NoEvent EXCEPT !.kind = "skipped",
                                            !.since = wentOfflineAt,
                                            !.pending = monitorTimers]
                /\ UNCHANGED <<syncTimeout, monitorTimers>>
  /\ UNCHANGED <<bound, asyncStorage, now, timerVars, storeVars, seedVars, cyc, restVars>>

\* ------------------------------------------------------------ operation queue

\* the run still has room for a row
RoomForRow == Len(queue) + Len(bills) + Len(inventory) < bound.rows

\* the run still has room for a row of sync_queue
RoomForOperation == RoomForRow /\ Len(queue) < bound.ops

\* a SELECT without the entity_type: every pending row, whatever its type
PendingIdsOfAnyType(rows, entity_type) ==
  {i \in DOMAIN rows : ~rows[i].synced}

\* getPendingOperations: SELECT * FROM sync_queue WHERE synced = 0 ORDER BY
\* created_at ASC
getPendingOperations(rows) ==
  OrderByCreatedAt(rows, {i \in DOMAIN rows : ~rows[i].synced})

\* the ids of the rows SELECT ... WHERE entity_type = ? AND synced = 0 finds
PendingIds(rows, entity_type) ==
  {i \in DOMAIN rows : rows[i].entity_type = entity_type /\ ~rows[i].synced}

\* JavaScript undefined
Undefined == "undefined"

\* operation.data as a screen passes it: the snapshot of the entity; a new
\* entity has no image yet
Snapshot(operation_type, entity_id) ==
  [id |-> entity_id,
   image |-> IF operation_type = "create" THEN Undefined ELSE "file"]

\* JSON.stringify of a snapshot: its members in order, a member that is
\* undefined left out
JSONstringify(object) ==
  IF "image" \notin DOMAIN object \/ object.image = Undefined
    THEN << <<"id", object.id>> >>
    ELSE << <<"id", object.id>>, <<"image", object.image>> >>

\* JSON.parse of such a text: the object with the members the text lists
JSONparse(text) ==
  [key \in {text[k][1] : k \in DOMAIN text} |->
     text[CHOOSE k \in DOMAIN text : text[k][1] = key][2]]

\* a tuple that names the entity in every case and always carries the stored
\* snapshot
TupleWithId(op) ==
  [operation |-> op.operation_type, data |-> JSONparse(op.data),
   id |-> op.entity_id, timestamp |-> op.timestamp]

\* the tuple operations.map builds of a row of sync_queue; a member that is
\* undefined is not part of the request body
Tuple(op) ==
  IF op.operation_type # "delete"
    THEN [operation |-> op.operation_type, data |-> JSONparse(op.data),
          timestamp |-> op.timestamp]
    ELSE [operation |-> op.operation_type, id |-> op.entity_id,
          timestamp |-> op.timestamp]

\* const syncPayload = operations.map(...) for the rows batch lists
syncPayload(rows, batch) ==
  [k \in 1..Len(batch) |-> Tuple(rows[batch[k]])]

\* the row INSERT INTO sync_queue writes: retry_count 0, synced 0, created_at
\* now; operation.timestamp is the time of the change
NewOperation(entity_type, operation_type, entity_id) ==
  [entity_type |-> entity_type, operation_type |-> operation_type,
   entity_id |-> entity_id,
   data |-> JSONstringify(Snapshot(operation_type, entity_id)),
   timestamp |-> now, created_at |-> now, synced |-> FALSE,
   synced_at |-> Null, retry_count |-> 0, last_error |-> Null]

\* the operations the app queues for an entity: create first, update or
\* delete of what exists, create again after a delete
LastOperation(rows, entity_type, entity_id) ==
  LET ids == {i \in DOMAIN rows : /\ rows[i].entity_type = entity_type
                                  /\ rows[i].entity_id = entity_id}
  IN IF ids = {} THEN "none"
     ELSE rows[CHOOSE i \in ids : \A j \in ids : j <= i].operation_type

NextOperations(rows, entity_type, entity_id) ==
  IF LastOperation(rows, entity_type, entity_id) \in {"none", "delete"}
    THEN {"create"}
    ELSE {"update", "delete"}

\* a queueOperation that keeps one pending row per entity: the new operation
\* takes the place of the pending one
queueOperationMerging(entity_type, operation_type, entity_id) ==
  /\ RoomForOperation
  /\ LET row == NewOperation(entity_type, operation_type, entity_id)
         same == {i \in PendingIds(queue, entity_type) :
                    queue[i].entity_id = entity_id}
     IN queue' = IF same = {}
                   THEN Append(queue, row)
                   ELSE [i \in DOMAIN queue |->
                           IF i \in same THEN row ELSE queue[i]]
  /\ enqueuing' = enqueuing + 1
  /\ Quiet
  /\ UNCHANGED <<bound, asyncStorage, now, netVars, fastTimers, bills, inventory, userData,
                 seedVars, cyc, restVars>>

\* queueOperation up to its await: the row is inserted
queueOperation(entity_type, operation_type, entity_id) ==
  /\ RoomForOperation
  /\ queue' = Append(queue, NewOperation(entity_type, operation_type, entity_id))
  /\ enqueuing' = enqueuing + 1
  /\ Quiet
  /\ UNCHANGED <<bound, asyncStorage, now, netVars, fastTimers, bills, inventory, userData,
                 seedVars, cyc, restVars>>


\* a queueOperation that sets the timer without asking for the connectivity
queueOperationAlwaysSchedules ==
  /\ enqueuing > 0
  /\ enqueuing' = enqueuing - 1
  /\ fastTimers' = Append(fastTimers, now + FAST_PATH_DELAY)
  /\ Quiet
  /\ UNCHANGED <<bound, asyncStorage, now, netVars, storeVars, seedVars, cyc, restVars>>

\* queueOperation after await getNetworkStatus(): the fast path
queueOperationOnline ==
  /\ enqueuing > 0
  /\ enqueuing' = enqueuing - 1
  /\ fastTimers' = IF net THEN Append(fastTimers, now + FAST_PATH_DELAY)
                          ELSE fastTimers
  /\ Quiet
  /\ UNCHANGED <<bound, asyncStorage, now, netVars, storeVars, seedVars, cyc, restVars>>

\* an UPDATE that leaves out WHERE id = ?: whatever is pending is marked
markEveryPendingOperation(rows, ids) ==
  [i \in DOMAIN rows |-> [rows[i] EXCEPT !.synced = TRUE, !.synced_at = now]]

\* a markOperationSynced that also frees the payload of the acknowledged
\* operation
markOperationSyncedFreeing(rows, ids) ==
  [i \in DOMAIN rows |->
     IF i \in ids THEN [rows[i] EXCEPT !.synced = TRUE, !.synced_at = now,
                                       !.data = <<>>]
                  ELSE rows[i]]

\* markOperationSynced for every id of ids
markOperationSynced(rows, ids) ==
  [i \in DOMAIN rows |->
     IF i \in ids THEN [rows[i] EXCEPT !.synced = TRUE, !.synced_at = now]
                  ELSE rows[i]]

\* generateInvoiceNumber: the sequence after the one issued last
generateInvoiceNumber(sequence) == sequence + 1

\* a bill saved locally: is_synced 0, its invoice number the next of the
\* sequence
CreateBill ==
  /\ RoomForRow
  /\ invoice_sequences' = generateInvoiceNumber(invoice_sequences)
  /\ bills' = Append(bills, [created_at |-> now, is_synced |-> FALSE,
                             invoice_number |-> invoice_sequences'])
  /\ Quiet
  /\ UNCHANGED <<bound, asyncStorage, now, netVars, timerVars, queue, inventory, userData,
                 catalogVars, seed, cyc, restVars>>

\* an inventory item saved locally: is_synced 0
CreateInventoryItem ==
  /\ RoomForRow
  /\ inventory' = Append(inventory, [is_synced |-> FALSE])
  /\ Quiet
  /\ UNCHANGED <<bound, asyncStorage, now, netVars, timerVars, queue, bills, userData,
                 seedVars, cyc, restVars>>

UnsyncedBills(rows) == {i \in DOMAIN rows : ~rows[i].is_synced}

\* getUnsyncedInventoryItems(): the unsynced rows, in row order
getUnsyncedInventoryItems(rows) ==
  LET ids == {i \in DOMAIN rows : ~rows[i].is_synced}
  IN CHOOSE f \in Perms(ids) : \A i \in 1..(Cardinality(ids) - 1) : f[i] < f[i + 1]

\* markInventoryItemSynced(id)
markInventoryItemSynced(rows, id) == [rows EXCEPT ![id].is_synced = TRUE]

\* ------------------------------------------------------------ sync history

\* the entry saveSyncToHistory builds when it is called at time stamp: the
\* counts that are not zero
newEntry(stamp, categoriesSynced, itemsSynced, billsSynced, inventorySynced) ==
  LET counts == << [name |-> "Categories", count |-> categoriesSynced],
                   [name |-> "Items", count |-> itemsSynced],
                   [name |-> "Bills", count |-> billsSynced],
                   [name |-> "Inventory", count |-> inventorySynced] >>
      Synced(item) == item.count > 0
  IN [id |-> stamp, timestamp |-> stamp, items |-> SelectSeq(counts, Synced)]

\* saveSyncToHistory after getItem('sync_history') returned hist: the value
\* it writes back, the new entry first, the 20 newest kept
saveSyncToHistory(hist, entry) == Limit(<<entry>> \o hist, HISTORY_LIMIT)

\* ------------------------------------------------------------ syncAll

\* const success = categoriesResult.success && ... && inventoryResult.success
CycleSuccess(rec) ==
  /\ rec.categories.success
  /\ rec.items.success
  /\ rec.bills.success
  /\ rec.inventory.success

\* a syncAll that reports the categories count as the items count too
syncAllResultMixedUp(rec) ==
  [success |-> CycleSuccess(rec),
   categoriesSynced |-> rec.categories.synced,
   itemsSynced |-> rec.categories.synced,
   billsSynced |-> rec.bills.synced,
   inventorySynced |-> rec.inventory.synced]

\* the object syncAll returns after the four drains
syncAllResult(rec) ==
  [success |-> CycleSuccess(rec),
   categoriesSynced |-> rec.categories.synced,
   itemsSynced |-> rec.items.synced,
   billsSynced |-> rec.bills.synced,
   inventorySynced |-> rec.inventory.synced]

SyncedTotal(rec) ==
  rec.categories.synced + rec.items.synced + rec.bills.synced
    + rec.inventory.synced

\* syncAll after the four drains: history is saved if the cycle succeeded and
\* synced anything, else syncAll returns
AfterDrains(rec) ==
  IF CycleSuccess(rec) /\ SyncedTotal(rec) > 0
    THEN {[rec EXCEPT !.pc = "history", !.stamp = now]}
    ELSE {[rec EXCEPT !.pc = "done"]}

\* syncInventory up to its first remote call, or its return when nothing is
\* unsynced
syncInventory(rec, inv) ==
  LET unsyncedItems == getUnsyncedInventoryItems(inv)
  IN IF Len(unsyncedItems) = 0
       THEN AfterDrains([rec EXCEPT !.inventory = DrainResult(TRUE, 0)])
       ELSE {[rec EXCEPT !.pc = "inventory", !.batch = unsyncedItems,
                         !.next = 1, !.errorCount = 0]}

\* a syncAll that gives up after a failed drain: bills and inventory are
\* not attempted
syncBillsUnlessFailed(rec, billRows, user, inv) ==
  IF ~rec.categories.success \/ ~rec.items.success
    THEN {[rec EXCEPT !.pc = "done"]}
    ELSE IF ~user
      THEN {[rec EXCEPT !.bills = DrainResult(FALSE, 0), !.pc = "done"]}
      ELSE {[rec EXCEPT !.pc = "bills",
                        !.batch = Limit(b, BILL_LIMIT)] :
              b \in OrderByCreatedAt(billRows, {i \in DOMAIN billRows :
                                                  ~billRows[i].is_synced})}

\* a syncBills that does not ask for the user: with nothing to upload it
\* returns success, otherwise it sends the batch
syncBillsAnyUser(rec, billRows, user, inv) ==
  IF UnsyncedBills(billRows) = {}
    THEN syncInventory([rec EXCEPT !.bills = DrainResult(TRUE, 0)], inv)
    ELSE {[rec EXCEPT !.pc = "bills", !.batch = Limit(b, BILL_LIMIT)] :
            b \in OrderByCreatedAt(billRows, UnsyncedBills(billRows))}

\* syncBills after await getUserData(), up to API.bills.sync or its return
syncBills(rec, billRows, user, inv) ==
  IF ~user
    THEN syncInventory([rec EXCEPT !.bills = DrainResult(FALSE, 0)], inv)
    ELSE IF UnsyncedBills(billRows) = {}
      THEN syncInventory([rec EXCEPT !.bills = DrainResult(TRUE, 0)], inv)
      ELSE {[rec EXCEPT !.pc = "bills", !.batch = Limit(b, BILL_LIMIT)] :
              b \in OrderByCreatedAt(billRows, UnsyncedBills(billRows))}

\* syncItems up to API.items.sync, or its return when nothing is pending;
\* syncBills then awaits getUserData()
syncItems(rec, rows) ==
  IF PendingIds(rows, "item") = {}
    THEN {[rec EXCEPT !.items = DrainResult(TRUE, 0), !.pc = "user"]}
    ELSE {[rec EXCEPT !.pc = "items", !.batch = b,
            !.request = syncPayload(rows, b)] :
            b \in OrderByCreatedAt(rows, PendingIds(rows, "item"))}

\* a syncCategories without the early return: it calls API.categories.sync
\* with whatever it read, an empty batch included
syncCategoriesAlwaysCalls(rec, rows) ==
  {[rec EXCEPT !.pc = "categories", !.batch = b,
            !.request = syncPayload(rows, b)] :
     b \in OrderByCreatedAt(rows, PendingIds(rows, "category"))}

\* syncCategories up to API.categories.sync, or its return when nothing is
\* pending
syncCategories(rec, rows) ==
  IF PendingIds(rows, "category") = {}
    THEN syncItems([rec EXCEPT !.categories = DrainResult(TRUE, 0)], rows)
    ELSE {[rec EXCEPT !.pc = "categories", !.batch = b,
            !.request = syncPayload(rows, b)] :
            b \in OrderByCreatedAt(rows, PendingIds(rows, "category"))}

\* the state a cycle is in while the batch call of an entity type is awaited
BatchCall(entity_type) == IF entity_type = "category" THEN "categories" ELSE "items"

\* rec has run the SELECT of an entity type and sent its batch: what failed
\* before has been followed by the next batch
AfterSelect(failed, rec) ==
  [t \in EntityTypes |-> IF rec.pc = BatchCall(t) THEN <<>> ELSE failed[t]]

\* the batch call of an entity type answered (ok) or threw (~ok)
AfterResponse(failed, entity_type, batch, ok) ==
  IF ok THEN failed ELSE [failed EXCEPT ![entity_type] = batch]

\* what the step of a batch drain that handles the response leaves alone,
\* offlineTimestamp and the tables apart
echoFrame == <<bound, now, net, isOnline, syncTimeout, monitorTimers, wentOfflineAt,
               timerVars, item_categories, invoice_sequences, seed>>

\* the rows of categories / items that response.categories / response.items
\* can name: an id the table does not hold is updated nowhere
Echoes(rows) == SUBSET DOMAIN rows

\* UPDATE categories / items SET is_synced = 1, updated_at = ? WHERE id = ?
\* for every id of the response
ApplyEcho(rows, echo) ==
  [id \in DOMAIN rows |->
     IF id \in echo THEN [rows[id] EXCEPT !.is_synced = TRUE, !.updated_at = now]
                    ELSE rows[id]]

\* what a step of a sync cycle leaves alone, offlineTimestamp apart
cycleFrame == <<bound, now, net, isOnline, syncTimeout, monitorTimers, wentOfflineAt,
                timerVars, seedVars>>

\* syncAll returns result; the listener's callback then runs its finally block
Return(c, rec, result) ==
  /\ cyc' = [cyc EXCEPT ![c] = IdleCycle]
  /\ asyncStorage' = Requeue(c, "idle")
  /\ event' = [NoEvent EXCEPT !.kind = "returned", !.result = result,
                               !.rec = rec]
  /\ offlineTimestamp' = IF rec.caller = "listener" THEN Null
                                                     ELSE offlineTimestamp

\* the cycle waits for its next await, or has returned
Continue(c, rec) ==
  IF rec.pc = "done"
    THEN Return(c, rec, syncAllResult(rec))
    ELSE /\ cyc' = [cyc EXCEPT ![c] = rec]
         /\ asyncStorage' = Requeue(c, rec.pc)
         /\ event' = [NoEvent EXCEPT !.kind = "step", !.rec = cyc[c]]
         /\ UNCHANGED offlineTimestamp

\* how many category operations, item operations and bills are waiting to be
\* uploaded
PendingNow ==
  [categories |-> Cardinality(PendingIds(queue, "category")),
   items |-> Cardinality(PendingIds(queue, "item")),
   bills |-> Cardinality(UnsyncedBills(bills))]

\* the first slot that holds no invocation
FreeSlot(c) ==
  /\ c <= bound.slots
  /\ cyc[c].pc = "idle"
  /\ \A d \in Slots : d < c => cyc[d].pc # "idle"

\* syncAll() is called: it awaits getNetworkStatus()
StartCycle(c, caller) ==
  /\ FreeSlot(c)
  /\ cyc' = [cyc EXCEPT ![c] = [IdleCycle EXCEPT !.pc = "net",
                                                 !.caller = caller,
                                                 !.atStart = PendingNow]]
  /\ Quiet
  /\ UNCHANGED asyncStorage

\* the stabilization timer fires: its callback calls syncAll
MonitorTimerFires(c, t) ==
  /\ t \in monitorTimers
  /\ t <= now
  /\ monitorTimers' = monitorTimers \ {t}
  /\ StartCycle(c, "listener")
  /\ UNCHANGED <<bound, asyncStorage, now, net, isOnline, offlineTimestamp, syncTimeout,
                 wentOfflineAt, timerVars, storeVars, seedVars, restVars>>

\* a screen calls syncAll()
SyncOnDemand(c) ==
  /\ StartCycle(c, "call")
  /\ UNCHANGED <<bound, now, netVars, timerVars, storeVars, seedVars, restVars>>

\* a fast-path timer of queueOperation fires: it calls syncAll
FastTimerFires(c, i) ==
  /\ i \in DOMAIN fastTimers
  /\ fastTimers[i] <= now
  /\ fastTimers' = RemoveAt(fastTimers, i)
  /\ StartCycle(c, "call")
  /\ UNCHANGED <<bound, asyncStorage, now, netVars, enqueuing, storeVars, seedVars, restVars>>

\* a syncAll without the entry guard: it drains whatever the network says
CheckNetworkUnguarded(c) ==
  /\ cyc[c].pc = "net"
  /\ \E rec \in syncCategories(cyc[c], queue) :
       /\ Continue(c, rec)
       /\ failedBatch' = AfterSelect(failedBatch, rec)
  /\ UNCHANGED <<cycleFrame, storeVars, historyVars>>

\* syncAll after await getNetworkStatus(): the entry guard, then syncCategories
CheckNetwork(c) ==
  /\ cyc[c].pc = "net"
  /\ IF ~net
       THEN /\ Return(c, cyc[c], OfflineResult)
            /\ UNCHANGED failedBatch
       ELSE \E rec \in syncCategories(cyc[c], queue) :
              /\ Continue(c, rec)
              /\ failedBatch' = AfterSelect(failedBatch, rec)
  /\ UNCHANGED <<cycleFrame, storeVars, historyVars>>

\* syncCategories after API.categories.sync answered (ok) or threw (~ok)
CategoriesResponse(c, ok) ==
  /\ cyc[c].pc = "categories"
  /\ LET ids == Range(cyc[c].batch)
         rows == IF ok THEN markOperationSynced(queue, ids) ELSE queue
         result == IF ok THEN DrainResult(TRUE, Len(cyc[c].batch))
                         ELSE DrainResult(FALSE, 0)
     IN /\ queue' = rows
        /\ \E echo \in Echoes(categories) :
              categories' = IF ok THEN ApplyEcho(categories, echo) ELSE categories
        /\ \E rec \in syncItems([cyc[c] EXCEPT !.categories = result,
                                               !.batch = <<>>, !.request = <<>>], rows) :
              /\ Continue(c, rec)
              /\ failedBatch' =
                   AfterSelect(AfterResponse(failedBatch, "category",
                                             cyc[c].batch, ok), rec)
  /\ UNCHANGED <<echoFrame, items, bills, inventory, userData, historyVars>>

\* a syncAll that records the history as soon as the items drain returned
ItemsResponseRecording(c, ok) ==
  /\ cyc[c].pc = "items"
  /\ LET ids == Range(cyc[c].batch)
         result == IF ok THEN DrainResult(TRUE, Len(cyc[c].batch))
                         ELSE DrainResult(FALSE, 0)
     IN /\ queue' = IF ok THEN markOperationSynced(queue, ids) ELSE queue
        /\ \E echo \in Echoes(items) :
              items' = IF ok THEN ApplyEcho(items, echo) ELSE items
        /\ Continue(c, [cyc[c] EXCEPT !.items = result, !.batch = <<>>, !.request = <<>>,
                                      !.pc = IF ok THEN "history" ELSE "user",
                                      !.stamp = IF ok THEN now ELSE Null])
        /\ failedBatch' = AfterResponse(failedBatch, "item", cyc[c].batch, ok)
  /\ UNCHANGED <<echoFrame, categories, bills, inventory, userData, historyVars>>

\* syncItems after API.items.sync answered (ok) or threw (~ok)
ItemsResponse(c, ok) ==
  /\ cyc[c].pc = "items"
  /\ LET ids == Range(cyc[c].batch)
         result == IF ok THEN DrainResult(TRUE, Len(cyc[c].batch))
                         ELSE DrainResult(FALSE, 0)
     IN /\ queue' = IF ok THEN markOperationSynced(queue, ids) ELSE queue
        /\ \E echo \in Echoes(items) :
              items' = IF ok THEN ApplyEcho(items, echo) ELSE items
        /\ Continue(c, [cyc[c] EXCEPT !.items = result, !.batch = <<>>, !.request = <<>>,
                                      !.pc = "user"])
        /\ failedBatch' = AfterResponse(failedBatch, "item", cyc[c].batch, ok)
  /\ UNCHANGED <<echoFrame, categories, bills, inventory, userData, historyVars>>

\* syncBills after await getUserData()
UserDataLoaded(c) ==
  /\ cyc[c].pc = "user"
  /\ \E rec \in syncBills(cyc[c], bills, userData, inventory) : Continue(c, rec)
  /\ UNCHANGED <<cycleFrame, storeVars, restVars>>

\* an UPDATE bills SET is_synced = 1 that leaves out WHERE id IN (...)
MarkEveryBillSynced(rows, ids) ==
  [i \in DOMAIN rows |-> [rows[i] EXCEPT !.is_synced = TRUE]]

\* UPDATE bills SET is_synced = 1 WHERE id IN (...)
MarkBillsSynced(rows, ids) ==
  [i \in DOMAIN rows |->
     IF i \in ids THEN [rows[i] EXCEPT !.is_synced = TRUE] ELSE rows[i]]

\* syncBills after API.bills.sync answered (ok) or threw (~ok)
BillsResponse(c, ok) ==
  /\ cyc[c].pc = "bills"
  /\ LET ids == Range(cyc[c].batch)
         result == IF ok THEN DrainResult(TRUE, Len(cyc[c].batch))
                         ELSE DrainResult(FALSE, 0)
     IN /\ bills' = IF ok THEN MarkBillsSynced(bills, ids) ELSE bills
        /\ \E rec \in syncInventory([cyc[c] EXCEPT !.bills = result,
                                                   !.batch = <<>>, !.request = <<>>], inventory) :
              Continue(c, rec)
  /\ UNCHANGED <<cycleFrame, queue, inventory, userData, restVars>>

\* the remote calls of syncInventory for one item: API.inventory.getById,
\* then API.inventory.update or API.inventory.create
InventoryCalls == {"inventory", "inventoryUpdate", "inventoryCreate"}

\* a loop that ends at the first item that failed
InventoryLoopUntilError(c, syncedCount, errorCount) ==
  LET rec == cyc[c]
  IN IF rec.next < Len(rec.batch) /\ errorCount = 0
       THEN Continue(c, [rec EXCEPT !.pc = "inventory",
                                    !.next = rec.next + 1,
                                    !.errorCount = errorCount,
                                    !.inventory.synced = syncedCount])
       ELSE \E done \in AfterDrains(
                  [rec EXCEPT !.batch = <<>>, !.request = <<>>, !.next = 0, !.errorCount = 0,
                              !.inventory =
                                 DrainResult(errorCount = 0, syncedCount)]) :
               Continue(c, done)

\* syncInventory at the end of one pass of its loop: it probes the next item
\* or returns
InventoryLoop(c, syncedCount, errorCount) ==
  LET rec == cyc[c]
  IN IF rec.next < Len(rec.batch)
       THEN Continue(c, [rec EXCEPT !.pc = "inventory",
                                    !.next = rec.next + 1,
                                    !.errorCount = errorCount,
                                    !.inventory.synced = syncedCount])
       ELSE \E done \in AfterDrains(
                  [rec EXCEPT !.batch = <<>>, !.request = <<>>, !.next = 0, !.errorCount = 0,
                              !.inventory =
                                 DrainResult(errorCount = 0, syncedCount)]) :
               Continue(c, done)

\* the HTTP status of an answer: success, error.response?.status === 404,
\* any other failure
FOUND == "200"
NOT_FOUND == "404"
FAILED == "500"

\* a probe whose 404 is rethrown like any other error
InventoryProbedStrict(c, status) ==
  /\ cyc[c].pc = "inventory"
  /\ IF status = FOUND
       THEN Continue(c, [cyc[c] EXCEPT !.pc = "inventoryUpdate"])
       ELSE InventoryLoop(c, cyc[c].inventory.synced, cyc[c].errorCount + 1)
  /\ UNCHANGED <<cycleFrame, storeVars, restVars>>

\* syncInventory after API.inventory.getById answered: the item is on the
\* server, the answer was 404, or the call failed in another way and the
\* error is rethrown to the catch of the pass
InventoryProbed(c, status) ==
  /\ cyc[c].pc = "inventory"
  /\ IF status = FOUND
       THEN Continue(c, [cyc[c] EXCEPT !.pc = "inventoryUpdate"])
       ELSE IF status = NOT_FOUND
         THEN Continue(c, [cyc[c] EXCEPT !.pc = "inventoryCreate"])
         ELSE InventoryLoop(c, cyc[c].inventory.synced, cyc[c].errorCount + 1)
  /\ UNCHANGED <<cycleFrame, storeVars, restVars>>

\* syncInventory after API.inventory.update or API.inventory.create answered
\* (ok) or threw (~ok): the item is marked synced and counted, or the error
\* is counted
InventoryItemDone(c, ok) ==
  /\ cyc[c].pc \in {"inventoryUpdate", "inventoryCreate"}
  /\ LET item == cyc[c].batch[cyc[c].next]
     IN /\ inventory' = IF ok THEN markInventoryItemSynced(inventory, item)
                              ELSE inventory
        /\ InventoryLoop(c, cyc[c].inventory.synced + (IF ok THEN 1 ELSE 0),
                          cyc[c].errorCount + (IF ok THEN 0 ELSE 1))
  /\ UNCHANGED <<cycleFrame, queue, bills, userData, restVars>>

\* the remote calls of a cycle
RemoteCalls == {"categories", "items", "bills"} \cup InventoryCalls

\* the server answers the remote call cycle c has in flight with 401: the
\* credential is no longer valid.  The answer reaches the device in a later
\* step
Unauthorized(c) ==
  /\ cyc[c].pc \in RemoteCalls
  /\ ~cyc[c].unauthorized
  /\ cyc' = [cyc EXCEPT ![c].unauthorized = TRUE]
  /\ Quiet
  /\ UNCHANGED <<bound, asyncStorage, now, netVars, timerVars, storeVars, seedVars,
                 restVars>>

\* syncAll rejects: its caller gets no result
Throw(c, rec) ==
  /\ cyc' = [cyc EXCEPT ![c] = IdleCycle]
  /\ asyncStorage' = Requeue(c, "idle")
  /\ event' = [NoEvent EXCEPT !.kind = "threw", !.rec = rec]
  /\ offlineTimestamp' = IF rec.caller = "listener" THEN Null
                                                     ELSE offlineTimestamp

\* syncCategories or syncItems after its batch call answered, when the UPDATE
\* of markOperationSynced throws for the operations unmarked: each call of
\* markOperationSynced catches its own error, the loop goes on and the drain
\* returns the length of the batch
MarksFail(c, entity_type, unmarked) ==
  /\ cyc[c].pc = BatchCall(entity_type)
  /\ unmarked # {}
  /\ unmarked \subseteq Range(cyc[c].batch)
  /\ LET rows == markOperationSynced(queue, Range(cyc[c].batch) \ unmarked)
         result == DrainResult(TRUE, Len(cyc[c].batch))
     IN /\ queue' = rows
        /\ IF entity_type = "category"
             THEN /\ \E echo \in Echoes(categories) :
                       categories' = ApplyEcho(categories, echo)
                  /\ UNCHANGED items
                  /\ \E rec \in syncItems([cyc[c] EXCEPT !.categories = result,
                                                         !.batch = <<>>, !.request = <<>>], rows) :
                       /\ Continue(c, rec)
                       /\ failedBatch' = AfterSelect(failedBatch, rec)
             ELSE /\ \E echo \in Echoes(items) : items' = ApplyEcho(items, echo)
                  /\ UNCHANGED categories
                  /\ Continue(c, [cyc[c] EXCEPT !.items = result, !.batch = <<>>, !.request = <<>>,
                                                !.pc = "user"])
                  /\ UNCHANGED failedBatch
  /\ UNCHANGED <<echoFrame, bills, inventory, userData, historyVars>>

\* syncAll when NetInfo.fetch() rejects: getNetworkStatus and syncAll have
\* no catch
NetworkQueryThrows(c) ==
  /\ cyc[c].pc = "net"
  /\ Throw(c, cyc[c])
  /\ UNCHANGED <<cycleFrame, storeVars, restVars>>

\* saveSyncToHistory after await AsyncStorage.getItem('sync_history') returned
\* (ok) or threw (~ok): it calls setItem with the history it read and its
\* entry, or gives up and syncAll goes on to last_sync_time
HistoryLoaded(c, ok) ==
  /\ cyc[c].pc = "history"
  /\ Answers(c)
  /\ LET rec == cyc[c]
         entry == newEntry(rec.stamp, rec.categories.synced, rec.items.synced,
                           rec.bills.synced, rec.inventory.synced)
     IN IF ok
          THEN Continue(c, [rec EXCEPT !.pc = "historySave",
                                       !.write = saveSyncToHistory(history, entry)])
          ELSE Continue(c, [rec EXCEPT !.pc = "lastSync", !.stamp = now])
  /\ UNCHANGED <<cycleFrame, storeVars, restVars>>

\* saveSyncToHistory after await AsyncStorage.setItem('sync_history', ...)
\* wrote (ok) or threw (~ok); syncAll then calls setItem('last_sync_time', now)
HistorySaved(c, ok) ==
  /\ cyc[c].pc = "historySave"
  /\ Answers(c)
  /\ history' = IF ok THEN cyc[c].write ELSE history
  /\ Continue(c, [cyc[c] EXCEPT !.pc = "lastSync", !.stamp = now,
                                 !.write = <<>>])
  /\ UNCHANGED <<cycleFrame, storeVars, lastSyncTime, failedBatch>>

\* syncAll after await AsyncStorage.setItem('last_sync_time', now) wrote (ok):
\* it returns its result; or threw (~ok): nothing catches it
LastSyncSaved(c, ok) ==
  /\ cyc[c].pc = "lastSync"
  /\ Answers(c)
  /\ LET rec == [cyc[c] EXCEPT !.pc = "done", !.stamp = Null]
     IN IF ok
          THEN /\ lastSyncTime' = cyc[c].stamp
               /\ Return(c, rec, syncAllResult(rec))
          ELSE /\ UNCHANGED lastSyncTime
               /\ Throw(c, rec)
  /\ UNCHANGED <<cycleFrame, storeVars, history, failedBatch>>

\* syncAll after the drains with AsyncStorage working: saveSyncToHistory,
\* last_sync_time, return
RecordHistory(c) ==
  \/ HistoryLoaded(c, TRUE)
  \/ HistorySaved(c, TRUE)
  \/ LastSyncSaved(c, TRUE)

\* ------------------------------------------------------------ initialSync

\* what the calls of initialSync can download.  Categories: the ids; items:
\* per id the category_ids; bills: at most bound.download bills, newest first
CategoryDownloads == SUBSET bound.server

ItemDownloads ==
  UNION {[ids -> SUBSET bound.server] : ids \in SUBSET bound.server}

BillDownloads ==
  UNION {[1..n -> InvoiceNumbers] : n \in 0..bound.download}

\* initialSync returns result
SeedReturns(result) ==
  seed' = [IdleSeed EXCEPT !.runs = seed.runs, !.result = result]

\* initialSync returns from its catch block after the call of step threw
SeedCatches(step) ==
  seed' = [IdleSeed EXCEPT !.runs = seed.runs, !.thrown = {step},
                           !.result = [success |-> FALSE,
                                       error |-> "error.message"]]

\* the remote calls of initialSync: API.categories.getAll(),
\* API.items.getAll(), API.inventory.getAll() and API.bills.download()
SeedCalls == {"categories", "items", "inventory", "bills"}

\* the request the remote call of initialSync at pc sends
SeedRequest(pc) ==
  CASE pc = "categories" -> [method |-> "GET", url |-> "/items/categories/"]
    [] pc = "items" -> [method |-> "GET", url |-> "/items/"]
    [] pc = "inventory" -> [method |-> "GET", url |-> "/inventory/"]
    [] pc = "bills" -> [method |-> "GET", url |-> "/backup/sync"]

\* an initialSync that takes the server's state for the truth and closes
\* the pending operations
SeedStartFlushing ==
  /\ seed.pc = "idle"
  /\ seed.runs < bound.seeds
  /\ seed' = [IdleSeed EXCEPT !.pc = "net", !.runs = seed.runs + 1]
  /\ queue' = markOperationSynced(queue, DOMAIN queue)
  /\ Quiet
  /\ UNCHANGED <<bound, asyncStorage, now, netVars, timerVars, bills, inventory,
                 userData, catalogVars, invoice_sequences, cyc, restVars>>

\* initialSync() is called: it awaits getNetworkStatus()
SeedStart ==
  /\ seed.pc = "idle"
  /\ seed.runs < bound.seeds
  /\ seed' = [IdleSeed EXCEPT !.pc = "net", !.runs = seed.runs + 1]
  /\ Quiet
  /\ UNCHANGED <<bound, asyncStorage, now, netVars, timerVars, storeVars, catalogVars,
                 invoice_sequences, cyc, restVars>>

\* what a step of initialSync leaves alone, the tables apart
seedFrame == <<bound, now, netVars, timerVars, queue, inventory, userData,
               invoice_sequences, cyc, failedBatch>>

\* initialSync after await getNetworkStatus() answered (ok) or rejected
\* (~ok): offline it returns, online it takes now and calls
\* API.categories.getAll()
SeedNetwork(ok) ==
  /\ seed.pc = "net"
  /\ IF ~ok THEN SeedReturns([success |-> FALSE, error |-> "error.message"])
     ELSE IF ~net
       THEN SeedReturns([success |-> FALSE, error |-> "No internet connection"])
       ELSE seed' = [seed EXCEPT !.pc = "categories", !.stamp = now]
  /\ UNCHANGED asyncStorage
  /\ Quiet
  /\ UNCHANGED <<seedFrame, bills, catalogVars, historyVars>>

\* INSERT OR REPLACE INTO categories / items for every downloaded id
Upsert(rows, ids, stamp) ==
  [id \in DOMAIN rows \cup ids |->
     IF id \in ids THEN [is_synced |-> TRUE, updated_at |-> stamp]
                   ELSE rows[id]]

\* initialSync after API.categories.getAll() answered with download (ok) or
\* threw (~ok): the categories are written and API.items.getAll() is called
SeedCategories(ok, download) ==
  /\ seed.pc = "categories"
  /\ IF ok
       THEN /\ categories' = Upsert(categories, download, seed.stamp)
            /\ seed' = [seed EXCEPT !.pc = "items",
                                    !.categories = Cardinality(download)]
       ELSE /\ SeedCatches("categories")
            /\ UNCHANGED categories
  /\ UNCHANGED asyncStorage
  /\ Quiet
  /\ UNCHANGED <<seedFrame, bills, items, item_categories, historyVars>>

\* the INSERTs of the downloaded category_ids without the DELETE: the
\* downloaded associations are added to those the device has
ReplaceCategoriesMerging(pairs, download) ==
  pairs \cup {pair \in ServerIds \X ServerIds :
                /\ pair[1] \in DOMAIN download
                /\ pair[2] \in download[pair[1]]}

\* DELETE FROM item_categories WHERE item_id = ? and the INSERTs of the
\* downloaded category_ids, for every downloaded item
ReplaceCategories(pairs, download) ==
  {pair \in pairs : pair[1] \notin DOMAIN download}
    \cup {pair \in ServerIds \X ServerIds :
            /\ pair[1] \in DOMAIN download
            /\ pair[2] \in download[pair[1]]}

\* initialSync after API.items.getAll() answered with download (ok) or threw
\* (~ok): the items and their categories are written and
\* API.inventory.getAll() is called
SeedItems(ok, download) ==
  /\ seed.pc = "items"
  /\ IF ok
       THEN /\ items' = Upsert(items, DOMAIN download, seed.stamp)
            /\ item_categories' = ReplaceCategories(item_categories, download)
            /\ seed' = [seed EXCEPT !.pc = "inventory",
                                    !.items = Cardinality(DOMAIN download),
                                    !.fetched = download]
       ELSE /\ SeedCatches("items")
            /\ UNCHANGED <<items, item_categories>>
  /\ UNCHANGED asyncStorage
  /\ Quiet
  /\ UNCHANGED <<seedFrame, bills, categories, historyVars>>

\* initialSync after API.inventory.getAll() answered with no inventory items
\* (ok) or threw (~ok): either way API.bills.download() is called
SeedInventory(ok) ==
  /\ seed.pc = "inventory"
  /\ seed' = [seed EXCEPT !.pc = "bills",
                          !.thrown = IF ok THEN {} ELSE {"inventory"}]
  /\ UNCHANGED asyncStorage
  /\ Quiet
  /\ UNCHANGED <<seedFrame, bills, catalogVars, historyVars>>

\* an existence check that never finds a row
existingNever(rows, invoice_number) == {}

\* SELECT id FROM bills WHERE invoice_number = ?
existing(rows, invoice_number) ==
  {i \in DOMAIN rows : rows[i].invoice_number = invoice_number}

\* the loop over the downloaded bills: a bill is inserted, is_synced 1, if
\* the SELECT finds no row
RECURSIVE InsertNewBills(_, _)
InsertNewBills(rows, download) ==
  IF download = <<>> THEN rows
  ELSE LET bill == Head(download)
           inserted == IF existing(rows, bill) = {}
                         THEN Append(rows, [created_at |-> 0, is_synced |-> TRUE,
                                            invoice_number |-> bill])
                         ELSE rows
       IN InsertNewBills(inserted, Tail(download))

\* initialSync after API.bills.download() answered with download (ok) or threw
\* (~ok).  The loop runs until an executeSql throws, at bill number thrown
\* (past the last: none does), which ends the loop; saveSyncToHistory is
\* called either way
SeedBills(ok, download, thrown) ==
  /\ seed.pc = "bills"
  /\ thrown \in 1..(Len(download) + 1)
  /\ bills' = IF ok THEN InsertNewBills(bills, SubSeq(download, 1, thrown - 1))
                    ELSE bills
  /\ seed' = [seed EXCEPT !.pc = "history", !.at = now,
                          !.download = IF ok THEN SubSeq(download, 1, thrown - 1)
                                             ELSE <<>>,
                          !.thrown = IF ok THEN {} ELSE {"bills"}]
  /\ asyncStorage' = Requeue(SeedSlot, "history")
  /\ Quiet
  /\ UNCHANGED <<seedFrame, catalogVars, historyVars>>

\* saveSyncToHistory(categories.length, items.length, 0, 0) after await
\* AsyncStorage.getItem('sync_history') returned (ok) or threw (~ok)
SeedHistoryLoaded(ok) ==
  /\ seed.pc = "history"
  /\ Answers(SeedSlot)
  /\ LET entry == newEntry(seed.at, seed.categories, seed.items, 0, 0)
     IN seed' = IF ok
                  THEN [seed EXCEPT !.pc = "historySave", !.thrown = {},
                                    !.write = saveSyncToHistory(history, entry)]
                  ELSE [seed EXCEPT !.pc = "lastSync", !.thrown = {}]
  /\ asyncStorage' = Requeue(SeedSlot, seed'.pc)
  /\ Quiet
  /\ UNCHANGED <<seedFrame, bills, catalogVars, historyVars>>

\* saveSyncToHistory after await AsyncStorage.setItem('sync_history', ...)
\* wrote (ok) or threw (~ok); initialSync then calls
\* setItem('last_sync_time', now)
SeedHistorySaved(ok) ==
  /\ seed.pc = "historySave"
  /\ Answers(SeedSlot)
  /\ history' = IF ok THEN seed.write ELSE history
  /\ seed' = [seed EXCEPT !.pc = "lastSync", !.write = <<>>]
  /\ asyncStorage' = Requeue(SeedSlot, seed'.pc)
  /\ Quiet
  /\ UNCHANGED <<seedFrame, bills, catalogVars, lastSyncTime>>

\* initialSync after await AsyncStorage.setItem('last_sync_time', now) wrote
\* (ok) or threw (~ok)
SeedLastSyncSaved(ok) ==
  /\ seed.pc = "lastSync"
  /\ Answers(SeedSlot)
  /\ lastSyncTime' = IF ok THEN seed.stamp ELSE lastSyncTime
  /\ seed' = [IdleSeed EXCEPT
                !.runs = seed.runs,
                !.result = IF ok THEN [success |-> TRUE, error |-> "none"]
                                 ELSE [success |-> FALSE,
                                       error |-> "error.message"]]
  /\ asyncStorage' = Requeue(SeedSlot, seed'.pc)
  /\ Quiet
  /\ UNCHANGED <<seedFrame, bills, catalogVars, history>>

\* the steps of initialSync, the server and the device answering ok
SeedStep(ok) ==
  \/ SeedNetwork(ok)
  \/ \E download \in CategoryDownloads : SeedCategories(ok, download)
  \/ \E download \in ItemDownloads : SeedItems(ok, download)
  \/ SeedInventory(ok)
  \/ \E download \in BillDownloads :
       \E thrown \in 1..(Len(download) + 1) : SeedBills(ok, download, thrown)
  \/ SeedHistoryLoaded(ok)
  \/ SeedHistorySaved(ok)
  \/ SeedLastSyncSaved(ok)

\* ------------------------------------------------------------ specification

\* the steps of a sync cycle with the server answering ok
CycleStep(c, ok) ==
  \/ CheckNetwork(c)
  \/ CategoriesResponse(c, ok)
  \/ ItemsResponse(c, ok)
  \/ UserDataLoaded(c)
  \/ BillsResponse(c, ok)
  \/ InventoryProbed(c, IF ok THEN FOUND ELSE FAILED)
  \/ InventoryItemDone(c, ok)
  \/ RecordHistory(c)

\* a local change to an entity of one of the types, queued by a screen
LocalChangeOf(types) ==
  \E entity_type \in types, entity_id \in EntityIds :
    \E operation_type \in NextOperations(queue, entity_type, entity_id) :
      queueOperation(entity_type, operation_type, entity_id)

LocalChange == LocalChangeOf(EntityTypes)

\* a timer that is due fires
MonitorTimerDue == \E c \in Slots : \E t \in monitorTimers : MonitorTimerFires(c, t)

FastTimerDue == \E c \in Slots : \E i \in DOMAIN fastTimers : FastTimerFires(c, i)

\* the sync engine: connectivity events, local changes, bills and inventory
\* items, sync cycles started by the fast path, remote calls that succeed or
\* fail
Init ==
  InitWith([quantum |-> Quantum, ticks |-> SyncTicks, rows |-> MaxRows,
            ops |-> MaxRows, slots |-> 2,
            types |-> EntityTypes, user |-> TRUE, seeds |-> 0, past |-> 0, server |-> {}, download |-> 0, backlog |-> 0])

Next ==
  \/ Tick
  \/ \E connected \in BOOLEAN : NetInfoEvent(connected)
  \/ LocalChange
  \/ queueOperationOnline
  \/ CreateBill
  \/ CreateInventoryItem
  \/ FastTimerDue
  \/ \E c \in Slots, ok \in BOOLEAN : CycleStep(c, ok)

Spec == Init /\ [][Next]_vars

\* the operation queue: the device stays online, operations of one entity
\* type are queued and drained by overlapping cycles, batch calls succeed or
\* fail
InitQueue ==
  \E entity_type \in EntityTypes :
    InitWith([quantum |-> Quantum, ticks |-> SyncTicks, rows |-> MaxRows,
              ops |-> MaxRows, slots |-> 2, types |-> {entity_type},
              user |-> TRUE, seeds |-> 0, past |-> 0, server |-> {}, download |-> 0, backlog |-> 0])

QueueCycleStep(c, ok) ==
  \/ CheckNetwork(c)
  \/ CategoriesResponse(c, ok)
  \/ ItemsResponse(c, ok)
  \/ UserDataLoaded(c)
  \/ RecordHistory(c)

NextQueue ==
  \/ Tick
  \/ LocalChangeOf(bound.types)
  \/ queueOperationOnline
  \/ FastTimerDue
  \/ \E c \in Slots, ok \in BOOLEAN : QueueCycleStep(c, ok)

SpecQueue == InitQueue /\ [][NextQueue]_vars

\* the four drains with more rows to drain: the device stays online, a user
\* is logged in, one cycle at a time, remote calls that succeed or fail
InitDrains ==
  InitWith([quantum |-> Quantum, ticks |-> SyncTicks, rows |-> DrainRows,
            ops |-> DrainOps, slots |-> 1, types |-> EntityTypes,
            user |-> TRUE, seeds |-> 0, past |-> 0, server |-> {}, download |-> 0, backlog |-> 0])

NextDrains ==
  \/ Tick
  \/ LocalChange
  \/ queueOperationOnline
  \/ CreateBill
  \/ CreateInventoryItem
  \/ FastTimerDue
  \/ \E c \in Slots, ok \in BOOLEAN : CycleStep(c, ok)

SpecDrains == InitDrains /\ [][NextDrains]_vars

\* the sync engine run again: two local changes to categories and an
\* inventory item, one cycle at a time, each started by the fast path, with
\* or without a logged-in user; no bill is created, so API.bills.sync is
\* never called
RepeatCycleStep(c, ok) ==
  \/ CheckNetwork(c)
  \/ CategoriesResponse(c, ok)
  \/ UserDataLoaded(c)
  \/ InventoryProbed(c, IF ok THEN FOUND ELSE FAILED)
  \/ InventoryItemDone(c, ok)
  \/ RecordHistory(c)

InitRepeat ==
  \E user \in BOOLEAN :
    InitWith([quantum |-> Quantum, ticks |-> SyncTicks, rows |-> RepeatRows,
              ops |-> RepeatOps, slots |-> 1, types |-> {"category"},
              user |-> user, seeds |-> 0, past |-> 0, server |-> {}, download |-> 0, backlog |-> 0])

NextRepeat ==
  \/ Tick
  \/ LocalChangeOf({"category"})
  \/ queueOperationOnline
  \/ CreateInventoryItem
  \/ FastTimerDue
  \/ \E c \in Slots, ok \in BOOLEAN : RepeatCycleStep(c, ok)

SpecRepeat == InitRepeat /\ [][NextRepeat]_vars

\* the bill backlog: the device starts with unsynced bills, none, one, as
\* many as one request takes or more; sales add bills, screens call syncAll,
\* cycles overlap, API.bills.sync succeeds or fails
Backlogs == {0, 1, BILL_LIMIT, BacklogBills}

BacklogCycleStep(c, ok) ==
  \/ CheckNetwork(c)
  \/ UserDataLoaded(c)
  \/ BillsResponse(c, ok)
  \/ RecordHistory(c)

InitBacklog ==
  \E backlog \in Backlogs :
    InitWith([quantum |-> Quantum, ticks |-> 1, rows |-> backlog + BacklogNew,
              ops |-> 0, slots |-> 2, types |-> {}, user |-> TRUE,
              seeds |-> 0, past |-> 0, server |-> {}, download |-> 0,
              backlog |-> backlog])

NextBacklog ==
  \/ CreateBill
  \/ \E c \in Slots : SyncOnDemand(c)
  \/ \E c \in Slots, ok \in BOOLEAN : BacklogCycleStep(c, ok)

SpecBacklog == InitBacklog /\ [][NextBacklog]_vars

\* the inventory drain: items are created and screens call syncAll.  The
\* server holds the first item, has never seen the second and fails on the
\* probe of any other; its answers to update and create succeed or fail
ProbeStatus(id) == IF id = 1 THEN FOUND ELSE IF id = 2 THEN NOT_FOUND ELSE FAILED

ProbeAnswered(c) ==
  /\ cyc[c].pc = "inventory"
  /\ InventoryProbed(c, ProbeStatus(cyc[c].batch[cyc[c].next]))

InventoryCycleStep(c, ok) ==
  \/ CheckNetwork(c)
  \/ UserDataLoaded(c)
  \/ ProbeAnswered(c)
  \/ InventoryItemDone(c, ok)
  \/ RecordHistory(c)

InitInventory ==
  InitWith([quantum |-> Quantum, ticks |-> 1, rows |-> InventoryRows,
            ops |-> 0, slots |-> 2, types |-> {}, user |-> TRUE,
            seeds |-> 0, past |-> 0, server |-> {}, download |-> 0,
            backlog |-> 0])

NextInventory ==
  \/ CreateInventoryItem
  \/ \E c \in Slots : SyncOnDemand(c)
  \/ \E c \in Slots, ok \in BOOLEAN : InventoryCycleStep(c, ok)

SpecInventory == InitInventory /\ [][NextInventory]_vars

\* a credential that expires: local changes, bills and inventory items,
\* syncAll called on demand, one cycle at a time; a call in flight may be
\* answered 401, and every later call of that cycle fails as well.  The
\* response interceptor rejects with the error it got, so the drain sees a
\* 401 as it sees any failed call
AuthCycleStep(c, ok) ==
  /\ cyc[c].unauthorized => ~ok
  /\ \/ CheckNetwork(c)
     \/ CategoriesResponse(c, ok)
     \/ ItemsResponse(c, ok)
     \/ UserDataLoaded(c)
     \/ BillsResponse(c, ok)
     \/ InventoryProbed(c, IF ok THEN FOUND ELSE FAILED)
     \/ InventoryItemDone(c, ok)
     \/ RecordHistory(c)

InitAuth ==
  InitWith([quantum |-> Quantum, ticks |-> 1, rows |-> AuthRows,
            ops |-> AuthRows, slots |-> 1, types |-> EntityTypes,
            user |-> TRUE, seeds |-> 0, past |-> 0, server |-> {},
            download |-> 0, backlog |-> 0])

NextAuth ==
  \/ LocalChange
  \/ queueOperationOnline
  \/ CreateBill
  \/ CreateInventoryItem
  \/ \E c \in Slots : SyncOnDemand(c)
  \/ \E c \in Slots : Unauthorized(c)
  \/ \E c \in Slots, ok \in BOOLEAN : AuthCycleStep(c, ok)

SpecAuth == InitAuth /\ [][NextAuth]_vars

\* the sync engine beside initialSync: local changes to a category and an
\* item the server knows, cycles started by the fast path, and initialSync
\* downloading the catalog
CatalogCycleStep(c, ok) ==
  \/ CheckNetwork(c)
  \/ CategoriesResponse(c, ok)
  \/ ItemsResponse(c, ok)
  \/ UserDataLoaded(c)
  \/ RecordHistory(c)

InitCatalog ==
  InitWith([quantum |-> Quantum, ticks |-> SyncTicks, rows |-> CatalogRows,
            ops |-> CatalogRows, slots |-> 1, types |-> EntityTypes,
            user |-> TRUE, seeds |-> CatalogRuns, past |-> 0,
            server |-> EntityIds, download |-> 0, backlog |-> 0])

NextCatalog ==
  \/ Tick
  \/ LocalChangeOf(bound.types)
  \/ queueOperationOnline
  \/ FastTimerDue
  \/ \E c \in Slots, ok \in BOOLEAN : CatalogCycleStep(c, ok)
  \/ SeedStart
  \/ \E ok \in BOOLEAN : SeedStep(ok)

SpecCatalog == InitCatalog /\ [][NextCatalog]_vars

\* a cycle of a device that queues operations for items only
TableCycleStep(c, ok) ==
  \/ CheckNetwork(c)
  \/ ItemsResponse(c, ok)
  \/ UserDataLoaded(c)
  \/ RecordHistory(c)

\* calls of initialSync in a run about the catalog it downloads
AssocRuns == 2

\* initialSync called again and again while the catalog of the server
\* changes: every download is some set of the server's items, each with some
\* of the server's categories
InitAssoc ==
  InitWith([quantum |-> Quantum, ticks |-> 1, rows |-> 0, ops |-> 0,
            slots |-> 0, types |-> {}, user |-> TRUE, seeds |-> AssocRuns,
            past |-> 0, server |-> ServerIds, download |-> 0,
            backlog |-> 0])

NextAssoc ==
  \/ SeedStart
  \/ \E ok \in BOOLEAN : SeedStep(ok)

SpecAssoc == InitAssoc /\ [][NextAssoc]_vars

\* rows ever inserted in a run about the order of the drains
OrderRows == 3

\* the order of the drains: operations queued for an item, bills and
\* inventory items created, syncAll called on demand, every remote call
\* answered or failing
OrderCycleStep(c, ok) ==
  \/ CheckNetwork(c)
  \/ ItemsResponse(c, ok)
  \/ UserDataLoaded(c)
  \/ BillsResponse(c, ok)
  \/ InventoryProbed(c, IF ok THEN FOUND ELSE FAILED)
  \/ InventoryItemDone(c, ok)
  \/ RecordHistory(c)

InitOrder ==
  InitWith([quantum |-> Quantum, ticks |-> 1, rows |-> OrderRows,
            ops |-> OrderRows, slots |-> 1, types |-> {"item"},
            user |-> TRUE, seeds |-> 0, past |-> 0, server |-> {},
            download |-> 0, backlog |-> 0])

NextOrder ==
  \/ LocalChangeOf(bound.types)
  \/ queueOperationOnline
  \/ CreateBill
  \/ CreateInventoryItem
  \/ \E c \in Slots : SyncOnDemand(c)
  \/ \E c \in Slots, ok \in BOOLEAN : OrderCycleStep(c, ok)

SpecOrder == InitOrder /\ [][NextOrder]_vars

\* rows ever inserted in a run about the entity types of queued operations
TypeRows == 2

\* the entity_type of a SyncOperation
QueuedTypes == {"category", "item", "bill", "inventory"}

\* operations queued for every entity type the interface allows, syncAll
\* called on demand, the batch calls answered or failing
TypeCycleStep(c, ok) ==
  \/ CheckNetwork(c)
  \/ CategoriesResponse(c, ok)
  \/ ItemsResponse(c, ok)
  \/ UserDataLoaded(c)
  \/ RecordHistory(c)

InitTypes ==
  InitWith([quantum |-> Quantum, ticks |-> 1, rows |-> TypeRows,
            ops |-> TypeRows, slots |-> 1, types |-> QueuedTypes,
            user |-> TRUE, seeds |-> 0, past |-> 0, server |-> {},
            download |-> 0, backlog |-> 0])

NextTypes ==
  \/ LocalChangeOf(bound.types)
  \/ queueOperationOnline
  \/ \E c \in Slots : SyncOnDemand(c)
  \/ \E c \in Slots, ok \in BOOLEAN : TypeCycleStep(c, ok)

SpecTypes == InitTypes /\ [][NextTypes]_vars

\* rows ever inserted in a run about the stored user
UserRows == 2

\* a device with or without stored user data: operations queued for an item,
\* bills created, syncAll called on demand, every remote call answered or
\* failing
UserCycleStep(c, ok) ==
  \/ CheckNetwork(c)
  \/ ItemsResponse(c, ok)
  \/ UserDataLoaded(c)
  \/ BillsResponse(c, ok)
  \/ RecordHistory(c)

InitUser ==
  \E user \in BOOLEAN :
    InitWith([quantum |-> Quantum, ticks |-> 1, rows |-> UserRows,
              ops |-> UserRows, slots |-> 1, types |-> {"item"},
              user |-> user, seeds |-> 0, past |-> 0, server |-> {},
              download |-> 0, backlog |-> 0])

NextUser ==
  \/ LocalChangeOf(bound.types)
  \/ queueOperationOnline
  \/ CreateBill
  \/ \E c \in Slots : SyncOnDemand(c)
  \/ \E c \in Slots, ok \in BOOLEAN : UserCycleStep(c, ok)

SpecUser == InitUser /\ [][NextUser]_vars

\* rows ever inserted in a run about the fast path of queueOperation
PathRows == 2
\* clock steps of such a run
PathTicks == 2

\* the fast path: operations queued for an item while the connectivity
\* changes, the timers of queueOperation coming due and their cycles
InitPath ==
  InitWith([quantum |-> Quantum, ticks |-> PathTicks, rows |-> PathRows,
            ops |-> PathRows, slots |-> 1, types |-> {"item"},
            user |-> TRUE, seeds |-> 0, past |-> 0, server |-> {},
            download |-> 0, backlog |-> 0])

NextPath ==
  \/ Tick
  \/ \E connected \in BOOLEAN : NetInfoEvent(connected)
  \/ LocalChangeOf(bound.types)
  \/ queueOperationOnline
  \/ FastTimerDue
  \/ \E c \in Slots, ok \in BOOLEAN : TableCycleStep(c, ok)

SpecPath == InitPath /\ [][NextPath]_vars

\* rows ever inserted in a run about the tables of the device
TableRows == 2
\* calls of initialSync in such a run
TableRuns == 1

\* the tables of the device under everything that writes them: operations
\* queued for an item, syncAll called on demand, and initialSync called
\* while cycles run, the server holding no catalog yet
InitTables ==
  InitWith([quantum |-> Quantum, ticks |-> 1, rows |-> TableRows,
            ops |-> TableRows, slots |-> 1, types |-> {"item"},
            user |-> TRUE, seeds |-> TableRuns, past |-> 0,
            server |-> {}, download |-> 0, backlog |-> 0])

NextTables ==
  \/ LocalChangeOf(bound.types)
  \/ queueOperationOnline
  \/ \E c \in Slots : SyncOnDemand(c)
  \/ \E c \in Slots, ok \in BOOLEAN : TableCycleStep(c, ok)
  \/ SeedStart
  \/ \E ok \in BOOLEAN : SeedStep(ok)

SpecTables == InitTables /\ [][NextTables]_vars

\* initialSync: the seed of a device that creates bills, run again and again,
\* the server and the device's storage answering or failing
InitSeed ==
  InitWith([quantum |-> Quantum, ticks |-> SeedTicks, rows |-> SeedRows,
            ops |-> 0, slots |-> 0, types |-> {}, user |-> TRUE,
            seeds |-> SeedRuns, past |-> 0, server |-> {},
            download |-> SeedDownload, backlog |-> 0])

NextSeed ==
  \/ Tick
  \/ \E connected \in BOOLEAN : NetInfoEvent(connected)
  \/ CreateBill
  \/ SeedStart
  \/ \E ok \in BOOLEAN : SeedStep(ok)

SpecSeed == InitSeed /\ [][NextSeed]_vars

\* the listener alone over a long run: connectivity events, the
\* stabilization timer and the cycles it starts, nothing to upload
InitListener ==
  InitWith([quantum |-> MonitorQuantum, ticks |-> MonitorTicks, rows |-> 0,
            ops |-> 0, slots |-> 2,
            types |-> EntityTypes, user |-> TRUE, seeds |-> 0, past |-> 0, server |-> {}, download |-> 0, backlog |-> 0])

ListenerCycleStep(c) == CheckNetwork(c) \/ UserDataLoaded(c)

NextListener ==
  \/ Tick
  \/ \E connected \in BOOLEAN : NetInfoEvent(connected)
  \/ MonitorTimerDue
  \/ \E c \in Slots : ListenerCycleStep(c)

SpecListener == InitListener /\ [][NextListener]_vars

\* the network monitor with work to upload: connectivity events, queued
\* category operations, both timers, a server whose every call succeeds
InitMonitor ==
  InitWith([quantum |-> MonitorQuantum, ticks |-> FlapTicks,
            rows |-> MonitorRows, ops |-> MonitorRows, slots |-> 1,
            types |-> {"category"}, user |-> TRUE, seeds |-> 0, past |-> 0, server |-> {}, download |-> 0, backlog |-> 0])

MonitorCycleStep(c) ==
  \/ CheckNetwork(c)
  \/ CategoriesResponse(c, TRUE)
  \/ UserDataLoaded(c)
  \/ RecordHistory(c)

NextMonitor ==
  \/ Tick
  \/ \E connected \in BOOLEAN : NetInfoEvent(connected)
  \/ LocalChangeOf(bound.types)
  \/ queueOperationOnline
  \/ MonitorTimerDue
  \/ FastTimerDue
  \/ \E c \in Slots : MonitorCycleStep(c)

SpecMonitor == InitMonitor /\ [][NextMonitor]_vars

\* syncCategories / syncItems after the batch call answered and every
\* operation of the batch was marked, when applying response.categories /
\* response.items throws (an UPDATE fails, the import of the image cache
\* rejects): the snapshots before the one that threw are applied, the catch
\* of the drain returns { success: false, synced: 0 }
EchoFails(c, entity_type) ==
  /\ cyc[c].pc = BatchCall(entity_type)
  /\ LET rows == markOperationSynced(queue, Range(cyc[c].batch))
         result == DrainResult(FALSE, 0)
     IN /\ queue' = rows
        /\ IF entity_type = "category"
             THEN /\ \E echo \in Echoes(categories) :
                       categories' = ApplyEcho(categories, echo)
                  /\ UNCHANGED items
                  /\ \E rec \in syncItems([cyc[c] EXCEPT !.categories = result,
                                                         !.batch = <<>>,
                                                         !.request = <<>>], rows) :
                       /\ Continue(c, rec)
                       /\ failedBatch' = AfterSelect(failedBatch, rec)
             ELSE /\ \E echo \in Echoes(items) : items' = ApplyEcho(items, echo)
                  /\ UNCHANGED categories
                  /\ Continue(c, [cyc[c] EXCEPT !.items = result, !.batch = <<>>,
                                                !.request = <<>>, !.pc = "user"])
                  /\ UNCHANGED failedBatch
  /\ UNCHANGED <<echoFrame, bills, inventory, userData, historyVars>>

\* failures: the device stays online, operations are queued and uploaded
\* by one cycle at a time; NetInfo.fetch(), the remote calls and every call
\* of AsyncStorage answer or fail
InitFaults ==
  InitWith([quantum |-> Quantum, ticks |-> SyncTicks, rows |-> MaxRows,
            ops |-> MaxRows, slots |-> 1, types |-> EntityTypes,
            user |-> TRUE, seeds |-> 0, past |-> 0, server |-> {},
            download |-> 0, backlog |-> 0])

FaultyCycleStep(c, ok) ==
  \/ CheckNetwork(c)
  \/ NetworkQueryThrows(c)
  \/ CategoriesResponse(c, ok)
  \/ ItemsResponse(c, ok)
  \/ UserDataLoaded(c)
  \/ HistoryLoaded(c, ok)
  \/ HistorySaved(c, ok)
  \/ LastSyncSaved(c, ok)

NextFaults ==
  \/ Tick
  \/ LocalChangeOf(bound.types)
  \/ queueOperationOnline
  \/ FastTimerDue
  \/ \E c \in Slots, ok \in BOOLEAN : FaultyCycleStep(c, ok)
  \/ \E c \in Slots, t \in EntityTypes, unmarked \in SUBSET DOMAIN queue :
       MarksFail(c, t, unmarked)
  \/ \E c \in Slots, t \in EntityTypes : EchoFails(c, t)

SpecFaults == InitFaults /\ [][NextFaults]_vars

\* the sync history: with no entry or with twenty, a cycle that uploads a
\* category operation and an initialSync, every call answering
InitHistory ==
  \E past \in {0, HISTORY_LIMIT} :
    InitWith([quantum |-> Quantum, ticks |-> HistoryTicks, rows |-> HistoryRows,
              ops |-> HistoryRows, slots |-> 1, types |-> {"category"},
              user |-> TRUE, seeds |-> HistoryRuns, past |-> past,
              server |-> {}, download |-> 0, backlog |-> 0])

NextHistory ==
  \/ Tick
  \/ LocalChangeOf(bound.types)
  \/ queueOperationOnline
  \/ FastTimerDue
  \/ \E c \in Slots : MonitorCycleStep(c)
  \/ SeedStart
  \/ SeedStep(TRUE)

SpecHistory == InitHistory /\ [][NextHistory]_vars

\* work done offline and the engine's own triggers, with everything that is
\* due happening: time passes, due timers fire, awaited calls return, the
\* server answers every call with success.  Connectivity changes only while
\* the run still shows the stabilization timer coming due.
InitDelivery ==
  InitWith([quantum |-> MonitorQuantum, ticks |-> FairTicks,
            rows |-> MonitorRows, ops |-> MonitorRows, slots |-> 1,
            types |-> {"category"}, user |-> TRUE, seeds |-> 0, past |-> 0, server |-> {}, download |-> 0, backlog |-> 0])

CycleProceeds == \E c \in Slots : MonitorCycleStep(c)

NextDelivery ==
  \/ Tick
  \/ \E connected \in BOOLEAN :
       BeforeHorizon(STABILIZATION_DELAY) /\ NetInfoEvent(connected)
  \/ ~net /\ LocalChangeOf(bound.types)
  \/ queueOperationOnline
  \/ MonitorTimerDue
  \/ FastTimerDue
  \/ CycleProceeds

SpecDelivery ==
  /\ InitDelivery
  /\ [][NextDelivery]_vars
  /\ WF_vars(Tick)
  /\ WF_vars(queueOperationOnline)
  /\ WF_vars(MonitorTimerDue)
  /\ WF_vars(FastTimerDue)
  /\ WF_vars(CycleProceeds)

\* ------------------------------------------------------------ network monitor: properties

\* every queued operation, bill and inventory item is marked synced
AllUploaded ==
  /\ \A i \in DOMAIN queue : queue[i].synced
  /\ \A i \in DOMAIN bills : bills[i].is_synced
  /\ \A i \in DOMAIN inventory : inventory[i].is_synced

\* C1: if the device ends up online for good, with every remote call
\* succeeding and every due timer and sync step taken, then everything
\* that was queued or created while it was offline ends up marked synced
EventualDelivery == (<>[]net) => <>[]AllUploaded

\* the listener hears the device come back online
Restored == ~isOnline /\ isOnline'

\* how long the device has been offline when it comes back
OfflineInterval == now - wentOfflineAt

\* C2: an offline->online transition whose offline interval is at most
\* 3000 ms schedules no stabilization callback and no other timer, starts no
\* sync cycle and moves none, clears offlineTimestamp, and leaves every queue
\* row, the history and last_sync_time as they were
FlapSuppression ==
  [][(Restored /\ OfflineInterval <= OFFLINE_THRESHOLD) =>
       /\ monitorTimers' = monitorTimers
       /\ syncTimeout' = syncTimeout
       /\ fastTimers' = fastTimers
       /\ cyc' = cyc
       /\ offlineTimestamp' = Null
       /\ queue' = queue
       /\ history' = history
       /\ lastSyncTime' = lastSyncTime]_vars

\* a flap has just closed, an operation queued during it is pending, no timer
\* is pending and no cycle is in flight
FlapClosedWithPendingOperation ==
  /\ event.kind = "skipped"
  /\ 0 < now - event.since
  /\ now - event.since <= OFFLINE_THRESHOLD
  /\ \E i \in DOMAIN queue : /\ ~queue[i].synced
                             /\ queue[i].created_at >= event.since
  /\ monitorTimers = {}
  /\ fastTimers = <<>>
  /\ \A c \in Slots : cyc[c].pc = "idle"
  /\ offlineTimestamp = Null
  /\ history = <<>>

\* C3: every offline->online transition whose offline interval exceeds
\* 3000 ms leaves exactly one stabilization callback pending, due 2000 ms
\* after the transition
GenuineRestoreTrigger ==
  [][(Restored /\ OfflineInterval > OFFLINE_THRESHOLD) =>
       /\ monitorTimers' = {now + STABILIZATION_DELAY}
       /\ syncTimeout' = now + STABILIZATION_DELAY]_vars

\* C4: at most one stabilization callback is pending at any time, and a
\* transition the listener takes for genuine leaves the one it schedules as
\* the only one pending, whatever was pending before
Debounce ==
  [][/\ Cardinality(monitorTimers') <= 1
     /\ (Restored /\ event'.kind = "scheduled") =>
          monitorTimers' = {now + STABILIZATION_DELAY}]_vars

\* a genuine restore arrived while the callback of an earlier one was still
\* pending: that one is cancelled, only the new one is pending
DebounceRescheduled ==
  /\ event.kind = "scheduled"
  /\ event.pending # {}
  /\ monitorTimers = {now + STABILIZATION_DELAY}
  /\ event.pending # monitorTimers

\* ------------------------------------------------------------ operation queue: properties

\* row a was enqueued before row b: created_at ascending, ties by id ascending
EnqueuedBefore(rows, a, b) ==
  \/ rows[a].created_at < rows[b].created_at
  \/ rows[a].created_at = rows[b].created_at /\ a < b

\* the rows ids in enqueue order
EnqueueOrder(rows, ids) ==
  CHOOSE f \in Perms(ids) :
    \A i \in 1..(Cardinality(ids) - 1) : EnqueuedBefore(rows, f[i], f[i + 1])

\* in this step cycle c runs the SELECT of an entity type and sends its batch
Sends(c, entity_type) ==
  cyc[c].pc # BatchCall(entity_type) /\ cyc'[c].pc = BatchCall(entity_type)

\* in this step the batch call of cycle c for an entity type returns
Answered(c, entity_type) ==
  cyc[c].pc = BatchCall(entity_type) /\ cyc'[c].pc # BatchCall(entity_type)

\* the result of the drain of an entity type in rec
DrainOf(rec, entity_type) ==
  IF entity_type = "category" THEN rec.categories ELSE rec.items

\* where x stands in seq
Position(seq, x) == CHOOSE k \in DOMAIN seq : seq[k] = x

\* every element of sub is in seq, in the order it has in sub
InSameOrder(sub, seq) ==
  /\ Range(sub) \subseteq Range(seq)
  /\ \A i, j \in DOMAIN sub :
       i < j => Position(seq, sub[i]) < Position(seq, sub[j])

\* C5: the batch a categories or items drain sends lists all pending
\* operations of its entity type in enqueue order, created_at ascending and
\* ties by id ascending
OrderPreservingUpload ==
  [][\A c \in Slots, t \in EntityTypes :
       Sends(c, t) =>
         cyc'[c].batch = EnqueueOrder(queue', PendingIds(queue', t))]_vars

\* C6: a failed batch call marks no operation synced and changes no queue
\* row, and the next batch sent for the entity type contains every operation
\* of the failed batch, in the order the failed batch had
AllOrNothingRetry ==
  [][\A c \in Slots, t \in EntityTypes :
       /\ (Answered(c, t) /\ ~DrainOf(cyc'[c], t).success) => queue' = queue
       /\ Sends(c, t) => InSameOrder(failedBatch[t], cyc'[c].batch)]_vars

After(c) == IF cyc'[c].pc = "idle" THEN event'.rec ELSE cyc'[c]

\* in this step a cycle that passed the entry guard returns
Returns == event'.kind = "returned" /\ event'.rec.pc = "done"

\* the four drains were called and the cycle's success is the AND of theirs
FourDrainsAnd(rec, result) ==
  /\ rec.categories.ran /\ rec.items.ran /\ rec.bills.ran /\ rec.inventory.ran
  /\ result.success = (/\ rec.categories.success
                       /\ rec.items.success
                       /\ rec.bills.success
                       /\ rec.inventory.success)

\* a failed categories, items or bills batch call changes no row of its table
FailedBatchMarksNothing(c) ==
  /\ \A t \in EntityTypes :
       (Answered(c, t) /\ ~DrainOf(cyc'[c], t).success) => queue' = queue
  /\ (cyc[c].pc = "bills" /\ cyc'[c] # cyc[c] /\ ~After(c).bills.success) =>
       bills' = bills

UsedSlots == 1..bound.slots

EntryGuard ==
  [][\A c \in Slots :
       (cyc[c].pc = "net" /\ cyc'[c].pc # "net" /\ ~net) =>
         /\ event'.kind = "returned"
         /\ event'.result = [success |-> FALSE, categoriesSynced |-> 0,
                             itemsSynced |-> 0, billsSynced |-> 0,
                             inventorySynced |-> 0]
         /\ cyc'[c].pc = "idle"
         /\ \A d \in Slots \ {c} : cyc'[d] = cyc[d]
         /\ UNCHANGED <<queue, bills, inventory, history, lastSyncTime>>]_vars

\* a cycle started by the fast path has found the device offline and
\* returned, with an operation still pending
OfflineCycleReturned ==
  /\ event.kind = "returned"
  /\ event.rec.pc = "net"
  /\ ~net
  /\ ~event.result.success
  /\ \E i \in DOMAIN queue : ~queue[i].synced

\* C10: two sync cycles are never in flight at the same time
MutualExclusion ==
  \A c, d \in Slots : c # d => cyc[c].pc = "idle" \/ cyc[d].pc = "idle"

\* in this step the bills batch call of cycle c returns
BillsAnswered(c) == cyc[c].pc = "bills" /\ cyc'[c] # cyc[c]

\* C11: a batch lists only unsynced rows, and no queued operation and no
\* bill is in two upload requests that the server answers with success: a
\* row of a batch that is answered with success was not uploaded with
\* success before
NoDuplicateUpload ==
  [][\A c \in Slots :
       /\ \A t \in EntityTypes :
            /\ Sends(c, t) =>
                 \A i \in Range(cyc'[c].batch) : ~queue'[i].synced
            /\ (Answered(c, t) /\ DrainOf(cyc'[c], t).success) =>
                 \A i \in Range(cyc[c].batch) : ~queue[i].synced
       /\ (BillsAnswered(c) /\ After(c).bills.success) =>
            \A i \in Range(cyc[c].batch) : ~bills[i].is_synced]_vars

\* ------------------------------------------------------------ cycle result and history: properties

\* in this step cycle c returns from behind the entry guard
Returning(c) ==
  /\ cyc[c].pc # "idle" /\ cyc'[c].pc = "idle"
  /\ event'.kind = "returned" /\ event'.rec.pc = "done"

\* no remote call of the cycle failed: a bills drain that found no user
\* made no call
EveryCallSucceeded(rec) ==
  /\ rec.categories.success /\ rec.items.success /\ rec.inventory.success
  /\ rec.bills.success \/ ~userData

\* the counts of an entry, a count that is left out being zero
CountIn(entry, name) ==
  IF \E k \in DOMAIN entry.items : entry.items[k].name = name
    THEN entry.items[CHOOSE k \in DOMAIN entry.items :
                       entry.items[k].name = name].count
    ELSE 0

\* the entry carries the counts of result
Carries(entry, result) ==
  /\ CountIn(entry, "Categories") = result.categoriesSynced
  /\ CountIn(entry, "Items") = result.itemsSynced
  /\ CountIn(entry, "Bills") = result.billsSynced
  /\ CountIn(entry, "Inventory") = result.inventorySynced

\* in this step cycle c writes sync_history
WritesHistory(c) == cyc[c].pc = "historySave" /\ cyc'[c] # cyc[c]

\* in this step cycle c starts its bills batch call, its inventory loop
SendsBills(c) == cyc[c].pc # "bills" /\ cyc'[c].pc = "bills"
EntersInventory(c) == cyc[c].pc \notin InventoryCalls /\ cyc'[c].pc = "inventory"

\* in this step the inventory drain of cycle c returns
InventoryReturns(c) == cyc[c].pc \in InventoryCalls /\ cyc'[c].pc \notin InventoryCalls

\* the inventory drain attempts every unsynced item and, when no call
\* failed, counts them all; a cycle whose combined count is above zero
\* and that succeeded writes one history entry that carries its counts, first
\* in the history, and sets last_sync_time before it returns; no other does
CountsAndHistory(c) ==
  /\ EntersInventory(c) =>
       cyc'[c].batch = getUnsyncedInventoryItems(inventory')
  /\ (InventoryReturns(c) /\ After(c).inventory.success) =>
       After(c).inventory.synced = Len(cyc[c].batch)
  /\ WritesHistory(c) =>
       /\ history' # <<>>
       /\ Carries(history'[1], syncAllResult(cyc[c]))
       /\ SyncedTotal(cyc[c]) > 0
  /\ Returning(c) =>
       (cyc[c].pc = "lastSync") =
         (event'.result.success /\ SyncedTotal(event'.rec) > 0)

HistoryWheneverSynced ==
  [][\A c \in Slots :
       Returning(c) =>
         IF SyncedTotal(event'.rec) > 0
           THEN /\ cyc[c].pc = "lastSync"
                /\ lastSyncTime' = cyc[c].stamp
           ELSE /\ cyc[c].pc # "lastSync"
                /\ lastSyncTime' = lastSyncTime]_vars

\* ------------------------------------------------------------ initialSync: properties

\* in this step initialSync goes through the bills it downloaded
SeedsBills == seed.pc = "bills" /\ seed'.pc # "bills"

OneRowPerInvoice(rows) ==
  \A i, j \in DOMAIN rows :
     rows[i].invoice_number = rows[j].invoice_number => i = j

\* C16: whatever initialSync downloads and however often it runs, its loop
\* over the downloaded bills leaves every row of bills as it was, inserts
\* no row whose invoice number another row has, and so keeps a table with
\* at most one row per invoice number that way
SeedNonDuplication ==
  [][SeedsBills =>
       /\ Len(bills') >= Len(bills)
       /\ \A i \in DOMAIN bills : bills'[i] = bills[i]
       /\ \A i \in DOMAIN bills' \ DOMAIN bills :
            /\ existing(bills', bills'[i].invoice_number) = {i}
            /\ \E k \in DOMAIN seed'.download :
                 seed'.download[k] = bills'[i].invoice_number
       /\ OneRowPerInvoice(bills) => OneRowPerInvoice(bills')]_vars

\* the second initialSync has gone through a download of the invoice number
\* of a bill created on the device and of one the first had inserted: the
\* table holds these two rows
SeededTwice ==
  /\ seed.runs = 2
  /\ seed.pc = "history"
  /\ seed.download = <<2, 1>>
  /\ Len(bills) = 2
  /\ bills[1].invoice_number = 1 /\ ~bills[1].is_synced
  /\ bills[2].invoice_number = 2 /\ bills[2].is_synced

\* in this step a download of initialSync throws
Throws(step) == step \in seed'.thrown /\ step \notin seed.thrown

\* C17: when the download of the categories, of the items or of the recent
\* bills fails, initialSync returns {success: false, error} in that step,
\* without another call, and leaves the tables as they are
SeedAbortsOnFailure ==
  [][\A step \in {"categories", "items", "bills"} :
       Throws(step) =>
         /\ seed'.pc = "idle"
         /\ ~seed'.result.success
         /\ seed'.result.error # "none"
         /\ UNCHANGED <<bills, catalogVars, historyVars>>]_vars

\* ------------------------------------------------------------ sync history: properties

\* C14: sync_history never holds more than 20 entries, and whenever it
\* changes, one entry has been put first, the entries it held follow
\* unchanged and in their order, and only the oldest of 20 is gone
HistoryCap ==
  [][/\ Len(history') <= HISTORY_LIMIT
     /\ history' # history =>
          /\ Len(history') = Min(Len(history) + 1, HISTORY_LIMIT)
          /\ \A k \in 2..Len(history') : history'[k] = history[k - 1]]_vars

\* ------------------------------------------------------------ failures: properties

\* C15: whatever fails, the connectivity query, a remote call or a call of
\* AsyncStorage, no invocation of syncAll ends by throwing: each returns its
\* result
NeverThrows == event.kind # "threw"

\* ------------------------------------------------------------ startup: properties

\* C18: the app has started, the listener is registered; if the device is
\* and stays online, a sync cycle is started although no connectivity
\* transition occurs
StartupTrigger == ([]net) => <>(\E c \in Slots : cyc[c].pc # "idle")

\* ------------------------------------------------------------ notifications that are no restore: properties

\* in this step the listener hears the device go offline
GoesOffline == isOnline /\ ~isOnline'

\* C19: a stabilization callback is scheduled, or the pending one replaced,
\* only in a step in which the listener hears the device come back online;
\* a notification that the device went offline schedules nothing, cancels
\* nothing and starts no cycle; and the monitor starts a cycle only when a
\* callback scheduled that way comes due
NoTriggerWithoutRestore ==
  [][/\ ~Restored =>
          /\ monitorTimers' \subseteq monitorTimers
          /\ syncTimeout' = syncTimeout
     /\ GoesOffline =>
          /\ monitorTimers' = monitorTimers
          /\ fastTimers' = fastTimers
          /\ cyc' = cyc
     /\ \A c \in Slots :
          (cyc[c].pc = "idle" /\ cyc'[c].caller = "listener") =>
            /\ monitorTimers' # monitorTimers
            /\ \E t \in monitorTimers : t <= now /\ t \notin monitorTimers']_vars

\* the listener has just heard the device go offline while the callback of
\* an earlier restore is pending: it is still the only one, and no cycle is
\* in flight
WentOfflineCallbackPending ==
  /\ ~isOnline
  /\ wentOfflineAt = now
  /\ offlineTimestamp # Null
  /\ monitorTimers = {syncTimeout}
  /\ \A c \in Slots : cyc[c].pc = "idle"

\* ------------------------------------------------------------ drains that find nothing pending: properties

\* in this step a cycle begins the drain of the queued operations of an
\* entity type: syncCategories once the network check has passed, syncItems
\* once syncCategories has returned
BeginsDrain(c, entity_type) ==
  IF entity_type = "category"
    THEN cyc[c].pc = "net" /\ net /\ cyc'[c] # cyc[c]
    ELSE cyc[c].pc # "idle" /\ ~cyc[c].categories.ran /\ After(c).categories.ran

\* in this step syncBills, having found the user data, reads the unsynced bills
ReadsBills(c) == cyc[c].pc = "user" /\ userData /\ cyc'[c] # cyc[c]

\* in this step a cycle begins syncInventory: syncBills has returned
BeginsInventory(c) ==
  cyc[c].pc # "idle" /\ ~cyc[c].bills.ran /\ After(c).bills.ran

\* C20: a drain that reads its pending rows and finds none returns
\* {success: true, synced: 0} in that very step, without awaiting a remote
\* call: the cycle does not enter the drain's call, and no row changes; so a
\* syncInventory that runs after one which synced every item, with no
\* inventory change in between, calls nothing
NothingPendingNoCall ==
  [][\A c \in Slots :
       /\ \A t \in EntityTypes :
            (BeginsDrain(c, t) /\ PendingIds(queue', t) = {}) =>
              /\ DrainOf(After(c), t) = DrainResult(TRUE, 0)
              /\ After(c).pc # BatchCall(t)
       /\ (ReadsBills(c) /\ UnsyncedBills(bills) = {}) =>
            /\ After(c).bills = DrainResult(TRUE, 0)
            /\ After(c).pc # "bills"
            /\ bills' = bills
       /\ (BeginsInventory(c) /\ \A i \in DOMAIN inventory' : inventory'[i].is_synced) =>
            /\ After(c).inventory = DrainResult(TRUE, 0)
            /\ After(c).pc # "inventory"
            /\ inventory' = inventory]_vars

\* a second cycle has returned {success: true} with every count zero: the
\* cycle before it synced the inventory item and the queued operations and
\* recorded that in the history, and nothing changed in between
SecondRunFoundNothing ==
  /\ event.kind = "returned"
  /\ event.rec.pc = "done"
  /\ event.rec.inventory = DrainResult(TRUE, 0)
  /\ event.rec.bills = DrainResult(TRUE, 0)
  /\ event.result = [success |-> TRUE, categoriesSynced |-> 0,
                     itemsSynced |-> 0, billsSynced |-> 0,
                     inventorySynced |-> 0]
  /\ inventory # <<>>
  /\ \A i \in DOMAIN inventory : inventory[i].is_synced
  /\ queue # <<>>
  /\ Len(history) = 1

\* ------------------------------------------------------------ failed batches: properties

\* in this step the batch call of cycle c for an entity type has failed
BatchFails(c, entity_type) ==
  Answered(c, entity_type) /\ ~DrainOf(After(c), entity_type).success

\* C21: when the batch call of the categories or of the items drain fails,
\* every operation of the batch stays pending, its retry_count is one higher
\* and its last_error is set
RetryBookkeeping ==
  [][\A c \in Slots, t \in EntityTypes :
       BatchFails(c, t) =>
         \A i \in Range(cyc[c].batch) :
            /\ ~queue'[i].synced
            /\ queue'[i].retry_count = queue[i].retry_count + 1
            /\ queue'[i].last_error # Null]_vars

\* C22: marking an uploaded batch is all or nothing: when an operation of a
\* batch whose call has returned is left unmarked, no operation of that batch
\* is marked synced and the drain does not count the batch
MarkingTransactional ==
  [][\A c \in Slots, t \in EntityTypes :
       (Answered(c, t) /\ \E i \in Range(cyc[c].batch) : ~queue'[i].synced) =>
         /\ \A i \in Range(cyc[c].batch) : ~queue'[i].synced
         /\ DrainOf(After(c), t).synced = 0]_vars

\* ------------------------------------------------------------ offline since: properties

\* C23: whenever the listener's flag says offline, offlineTimestamp holds the
\* time of the latest online->offline transition; so it is never null while
\* offline and is cleared only once the device is back online
OfflineSinceKept ==
  ~isOnline => offlineTimestamp # Null /\ offlineTimestamp = wentOfflineAt

\* ------------------------------------------------------------ pending sync callbacks: properties

\* C24: at most one sync callback is scheduled and has not fired yet, the
\* stabilization timers of the listener and the fast-path timers of
\* queueOperation counted together
SinglePendingSync == Cardinality(monitorTimers) + Len(fastTimers) <= 1

\* ------------------------------------------------------------ is_synced of the catalog: properties

\* in this step the row id of a catalog table is written with is_synced = 1
WrittenSynced(rows, after, id) ==
  /\ id \in DOMAIN after
  /\ after[id].is_synced
  /\ id \notin DOMAIN rows \/ after[id] # rows[id]

\* the operations of the entity that are pending
PendingFor(rows, entity_type, entity_id) ==
  {i \in PendingIds(rows, entity_type) : rows[i].entity_id = entity_id}

\* C25: a category or item record is written with is_synced = 1, by the
\* upserts of initialSync or by the echo of a batch, only when no operation
\* for its id is pending; so the sync engine never makes a record with a
\* pending operation look acknowledged
SyncedMeansAcknowledged ==
  [][\A id \in ServerIds :
       /\ WrittenSynced(categories, categories', id) =>
            PendingFor(queue', "category", id) = {}
       /\ WrittenSynced(items, items', id) =>
            PendingFor(queue', "item", id) = {}]_vars

\* ------------------------------------------------------------ the bills drain: properties

\* batch lists rows of table rows oldest first, and no row left out is older
\* than a row of batch
OldestFirst(rows, batch, others) ==
  /\ \A i \in 1..(Len(batch) - 1) :
        rows[batch[i]].created_at <= rows[batch[i + 1]].created_at
  /\ \A i \in Range(batch), j \in others :
        rows[i].created_at <= rows[j].created_at

\* C26: the request syncBills sends holds bills that are unsynced when they
\* are read, each once, the oldest first, 50 of them or all if they are
\* fewer; the call is the only one of its cycle; when it succeeds the bills
\* of the request and no others become synced and their number is the count
\* of the drain, when it fails table bills is left as it was
BillsBatch ==
  [][\A c \in UsedSlots :
       /\ SendsBills(c) =>
            LET batch == cyc'[c].batch
                unsynced == UnsyncedBills(bills)
            IN /\ Range(batch) \subseteq unsynced
               /\ Cardinality(Range(batch)) = Len(batch)
               /\ Len(batch) = Min(BILL_LIMIT, Cardinality(unsynced))
               /\ OldestFirst(bills, batch, unsynced \ Range(batch))
       /\ BillsAnswered(c) =>
            /\ cyc'[c].pc # "bills"
            /\ IF After(c).bills.success
                 THEN /\ After(c).bills.synced = Len(cyc[c].batch)
                      /\ DOMAIN bills' = DOMAIN bills
                      /\ \A i \in DOMAIN bills :
                           bills'[i].is_synced =
                             (bills[i].is_synced \/ i \in Range(cyc[c].batch))
                 ELSE bills' = bills]_vars

\* a bill was created while the request of one older bill was in flight; the
\* call has succeeded, the older bill is synced and the new one is not
BillCreatedInFlightStaysUnsynced ==
  /\ event.kind = "step"
  /\ event.rec.pc = "bills"
  /\ Len(event.rec.batch) = 1
  /\ \A i \in Range(event.rec.batch) : bills[i].is_synced
  /\ \E i \in DOMAIN bills : ~bills[i].is_synced /\ bills[i].created_at = now

\* C27: when no bill has been created since the start, a cycle whose bills
\* call succeeds reduces the number of unsynced bills by 50, or by the number
\* that were unsynced when the cycle began if they were fewer
BacklogStep ==
  [][\A c \in UsedSlots :
       (/\ BillsAnswered(c)
        /\ After(c).bills.success
        /\ Len(bills) = bound.backlog) =>
         Cardinality(UnsyncedBills(bills)) - Cardinality(UnsyncedBills(bills'))
           = Min(BILL_LIMIT, cyc[c].atStart.bills)]_vars

\* ------------------------------------------------------------ the inventory drain: properties

\* the item cycle c is at in its loop
ItemOf(c) == cyc[c].batch[cyc[c].next]

\* in this step cycle c, at a remote call of the item, ends the pass of the
\* item: it goes on to the next item or the drain returns
PassEnds(c) ==
  /\ cyc[c].pc \in InventoryCalls
  /\ cyc'[c] # cyc[c]
  /\ After(c).pc \notin {"inventoryUpdate", "inventoryCreate"}

\* the pass of the item ends with the item counted as synced, as an error
PassSucceeds(c) ==
  PassEnds(c) /\ After(c).inventory.synced = cyc[c].inventory.synced + 1

PassFails(c) ==
  PassEnds(c) /\ After(c).inventory.synced = cyc[c].inventory.synced

\* the passes of the loop so far all went one of the two ways
PassesCounted(rec) ==
  rec.pc \in InventoryCalls =>
    rec.inventory.synced + rec.errorCount = rec.next - 1

\* C28: a pass of the inventory loop ends in success or in failure; either
\* way the next unsynced item of the list is attempted; a failed pass leaves
\* its item unsynced and counts an error, a successful pass marks its item
\* and no other; the drain returns the number of successful passes as
\* synced, and success exactly when no pass failed
InventoryIsolation ==
  [][\A c \in UsedSlots :
       /\ PassesCounted(cyc[c])
       /\ PassEnds(c) =>
            /\ PassSucceeds(c) \/ PassFails(c)
            /\ IF cyc[c].next < Len(cyc[c].batch)
                 THEN /\ cyc'[c].pc = "inventory"
                      /\ cyc'[c].next = cyc[c].next + 1
                      /\ cyc'[c].batch = cyc[c].batch
                      /\ PassesCounted(cyc'[c])
                 ELSE /\ After(c).inventory.ran
                      /\ After(c).inventory.success =
                           (After(c).inventory.synced = Len(cyc[c].batch))
       /\ PassFails(c) => inventory' = inventory
       /\ PassSucceeds(c) =>
            inventory' = [inventory EXCEPT ![ItemOf(c)].is_synced = TRUE]]_vars

\* a drain has returned { success: false, synced: 1 }: the probe of the
\* third item failed, the items before it were attempted and one of them is
\* synced, the third is not
FailedItemOthersSynced ==
  /\ event.kind = "returned"
  /\ event.rec.pc = "done"
  /\ ~event.rec.inventory.success
  /\ event.rec.inventory.synced = 1
  /\ Len(inventory) = 3
  /\ ~inventory[3].is_synced
  /\ \E i \in {1, 2} : inventory[i].is_synced

\* C29: every item of the loop is probed first; a probe that finds the item
\* is followed by one update call, a probe answered 404 by one create call
\* and no error is counted for it, a probe that fails otherwise ends the pass
\* with an error and without update, create or mark; an update or create call
\* ends the pass; an item turns synced only in the step in which the update
\* or create call of a cycle for that item has succeeded
ExistenceProbe ==
  [][/\ \A c \in UsedSlots :
          /\ (cyc[c].pc = "inventory" /\ cyc'[c] # cyc[c]) =>
               /\ inventory' = inventory
               /\ After(c).inventory.synced = cyc[c].inventory.synced
               /\ IF ProbeStatus(ItemOf(c)) \in {FOUND, NOT_FOUND}
                    THEN cyc'[c] =
                           [cyc[c] EXCEPT !.pc =
                              IF ProbeStatus(ItemOf(c)) = FOUND
                                THEN "inventoryUpdate" ELSE "inventoryCreate"]
                    ELSE PassFails(c)
          /\ (cyc[c].pc \in {"inventoryUpdate", "inventoryCreate"}
                /\ cyc'[c] # cyc[c]) => PassEnds(c)
          /\ (cyc'[c].pc \in InventoryCalls /\ cyc[c].pc \notin InventoryCalls)
               => cyc'[c].pc = "inventory"
     /\ \A i \in DOMAIN inventory :
          (~inventory[i].is_synced /\ inventory'[i].is_synced) =>
            \E c \in UsedSlots :
              /\ cyc[c].pc \in {"inventoryUpdate", "inventoryCreate"}
              /\ ItemOf(c) = i
              /\ PassSucceeds(c)]_vars

\* a drain has returned { success: true, synced: 2 }: the first item was
\* updated and the second, which the server answered 404 for, was created
UpdatedAndCreated ==
  /\ event.kind = "returned"
  /\ event.rec.pc = "done"
  /\ event.rec.inventory = DrainResult(TRUE, 2)
  /\ Len(inventory) = 2
  /\ \A i \in DOMAIN inventory : inventory[i].is_synced

\* ------------------------------------------------------------ authentication failure: properties

\* what syncAll returns from rec when its failed calls failed for a transient
\* reason
TransientOutcome(rec) == syncAllResult([rec EXCEPT !.unauthorized = FALSE])

\* in this step the 401 of the call cycle c has in flight reaches the drain
Delivered401(c) ==
  /\ cyc[c].unauthorized
  /\ cyc[c].pc \in RemoteCalls
  /\ cyc'[c] # cyc[c]

\* the step that handles a 401 marks no row and does not send the request
\* again
HandledQuietly(c) ==
  Delivered401(c) =>
    /\ queue' = queue
    /\ bills' = bills
    /\ inventory' = inventory
    /\ categories' = categories /\ items' = items
    /\ After(c).pc # cyc[c].pc \/ After(c).next # cyc[c].next

NotResentNothingMarked == [][\A c \in UsedSlots : HandledQuietly(c)]_vars

\* C30: a cycle one of whose calls was answered 401 returns to its caller
\* something other than what it returns when the call failed for a transient
\* reason; the step that handles the 401 marks no row and does not send the
\* request again
AuthFailureSurfaced ==
  [][/\ (event'.kind = "returned" /\ event'.rec.unauthorized) =>
          event'.result # TransientOutcome(event'.rec)
     /\ \A c \in UsedSlots : HandledQuietly(c)]_vars

\* ------------------------------------------------------------ the operation queue: properties

\* in this step queueOperation runs its INSERT
Enqueues == enqueuing' = enqueuing + 1

\* C31: a call of queueOperation adds one row to sync_queue, not synced and
\* with retry_count 0, after the rows that were there, and leaves those as
\* they were, the pending operations of the same entity included
EnqueueAppends ==
  [][Enqueues =>
       /\ Len(queue') = Len(queue) + 1
       /\ SubSeq(queue', 1, Len(queue)) = queue
       /\ ~queue'[Len(queue')].synced
       /\ queue'[Len(queue')].retry_count = 0]_vars

\* two operations of one entity are pending side by side
TwoPendingForOneEntity ==
  \E i, j \in DOMAIN queue :
    /\ i < j
    /\ queue[i].entity_type = queue[j].entity_type
    /\ queue[i].entity_id = queue[j].entity_id
    /\ ~queue[i].synced /\ ~queue[j].synced
    /\ queue[i].operation_type = "create" /\ queue[j].operation_type = "update"

\* what INSERT INTO sync_queue wrote of row and no later statement writes
Queued(row) ==
  <<row.operation_type, row.entity_type, row.entity_id, row.data,
    row.timestamp, row.created_at>>

\* C32: whatever queueOperation, syncAll and initialSync do, every row of
\* sync_queue stays in the table, with the operation_type, entity_type,
\* entity_id, data, timestamp and created_at it was inserted with, and a row
\* that is synced stays synced
QueueRowsKept ==
  [][\A i \in DOMAIN queue :
       /\ i \in DOMAIN queue'
       /\ Queued(queue'[i]) = Queued(queue[i])
       /\ queue[i].synced => queue'[i].synced]_vars

\* initialSync has run and returned, an operation queued before is synced
\* and a later one is pending
SyncedRowKeptBesidePending ==
  /\ seed.runs > 0 /\ seed.pc = "idle"
  /\ \E i, j \in DOMAIN queue :
       /\ i < j
       /\ queue[i].synced /\ ~queue[j].synced
       /\ queue[i].data # <<>>

\* in this step a call of queueOperation gets the answer of getNetworkStatus
ConnectivityAnswered == enqueuing' = enqueuing - 1

\* C33: queueOperation sets a timer for syncAll, due 500 ms later, exactly
\* when getNetworkStatus answers online, and sets none when it answers
\* offline; nothing else sets such a timer; the row of the operation is in
\* sync_queue before the connectivity is asked and before any cycle starts
\* for it
FastPath ==
  [][/\ ConnectivityAnswered =>
          /\ fastTimers' = IF net THEN Append(fastTimers, now + FAST_PATH_DELAY)
                                  ELSE fastTimers
          /\ Len(queue) >= enqueuing
          /\ queue' = queue
          /\ cyc' = cyc
     /\ Enqueues => fastTimers' = fastTimers /\ cyc' = cyc
     /\ Len(fastTimers') > Len(fastTimers) => ConnectivityAnswered]_vars

\* two operations were queued, one while online and one while offline: one
\* timer is pending, both rows are in the queue
OneTimerForTwoOperations ==
  /\ now = bound.quantum
  /\ enqueuing = 0
  /\ ~net
  /\ Len(queue) = 2
  /\ fastTimers = <<now + FAST_PATH_DELAY>>

\* ------------------------------------------------------------ the order of a cycle: properties

\* how far an invocation of syncAll at pc has come: the connectivity query,
\* the four drains in the order of their calls, the history, the return
Stage(pc) ==
  CASE pc = "idle" -> 0
    [] pc = "net" -> 1
    [] pc = "categories" -> 2
    [] pc = "items" -> 3
    [] pc = "user" -> 4
    [] pc = "bills" -> 5
    [] pc \in InventoryCalls -> 6
    [] pc = "history" -> 7
    [] pc = "historySave" -> 8
    [] pc = "lastSync" -> 9
    [] pc = "done" -> 10

\* the drains that have returned in invocation rec are those before the
\* stage it is at
ReturnedUpTo(rec) ==
  /\ rec.categories.ran = (Stage(rec.pc) > 2)
  /\ rec.items.ran = (Stage(rec.pc) > 3)
  /\ rec.bills.ran = (Stage(rec.pc) > 5)
  /\ rec.inventory.ran = (Stage(rec.pc) > 6)

SeedActs == seed' # seed

\* C35: whatever its outcome, no step of initialSync changes a row of
\* sync_queue or starts a cycle, and every request it sends is a GET
Downstream ==
  [][SeedActs =>
       /\ queue' = queue
       /\ cyc' = cyc
       /\ seed'.pc \in SeedCalls => SeedRequest(seed'.pc).method = "GET"]_vars

\* initialSync has returned success while an operation is pending
SeededWithPendingOperation ==
  /\ seed.pc = "idle"
  /\ seed.result.success
  /\ \E i \in DOMAIN queue : ~queue[i].synced

\* the category_ids table item_categories holds for item
CategoriesOf(pairs, item) == {pair[2] : pair \in {q \in pairs : q[1] = item}}

\* in this step initialSync writes the downloaded items
ItemsWritten == seed.pc = "items" /\ seed'.pc = "inventory"

\* in this step initialSync returns success
SeedSucceeds == seed.pc # "idle" /\ seed'.pc = "idle" /\ seed'.result.success

\* C36: when initialSync writes the downloaded items, the associations of a
\* downloaded item become exactly its downloaded category_ids and those of
\* any other item stay as they are; no other step of initialSync changes
\* item_categories, so this is what the table holds when it returns success
AssociationsReplaced ==
  [][/\ ItemsWritten =>
          \A item \in ServerIds :
            CategoriesOf(item_categories', item) =
              IF item \in DOMAIN seed'.fetched
                THEN seed'.fetched[item]
                ELSE CategoriesOf(item_categories, item)
     /\ (SeedActs /\ ~ItemsWritten) => item_categories' = item_categories
     /\ SeedSucceeds =>
          \A item \in DOMAIN seed.fetched :
            CategoriesOf(item_categories', item) = seed.fetched[item]]_vars

\* the second initialSync downloaded item e1 with one category: the device
\* holds that association for e1 and still the one of item e2, which the
\* download did not list
ReplacedBesideKept ==
  /\ seed.runs = 2
  /\ seed.pc = "lastSync"
  /\ DOMAIN seed.fetched = {"e1"}
  /\ seed.fetched["e1"] = {"e2"}
  /\ item_categories = {<<"e1", "e2">>, <<"e2", "e1">>}

\* ------------------------------------------------------------ the batch request: properties

\* in this step cycle c sends the batch of an entity type
SendsBatch(c, entity_type) ==
  cyc'[c].pc = BatchCall(entity_type) /\ cyc[c].pc # BatchCall(entity_type)

\* tuple is the translation of row op the batch format asks for
Translates(tuple, op) ==
  /\ tuple.operation = op.operation_type
  /\ tuple.timestamp = op.timestamp
  /\ IF op.operation_type \in {"create", "update"}
       THEN /\ DOMAIN tuple = {"operation", "data", "timestamp"}
            /\ JSONstringify(tuple.data) = op.data
       ELSE /\ DOMAIN tuple = {"operation", "id", "timestamp"}
            /\ tuple.id = op.entity_id

\* C37: the body of a categories or items batch call has one tuple for each
\* pending operation of the entity type and no other; a create or update
\* tuple carries the stored payload as data and no id, a delete tuple
\* carries entity_id as id and no data, and both carry operation_type and
\* timestamp of the row as they are
BatchTranslation ==
  [][\A c \in UsedSlots : \A entity_type \in EntityTypes :
       SendsBatch(c, entity_type) =>
         LET request == cyc'[c].request
             batch == cyc'[c].batch
         IN /\ Len(request) = Cardinality(PendingIds(queue', entity_type))
            /\ Len(batch) = Len(request)
            /\ Range(batch) = PendingIds(queue', entity_type)
            /\ \A k \in DOMAIN request :
                 Translates(request[k], queue'[batch[k]])]_vars

\* a batch in flight with a create tuple and a delete tuple
CreateAndDeleteSent ==
  \E c \in UsedSlots :
    /\ cyc[c].pc \in {"categories", "items"}
    /\ \E j, k \in DOMAIN cyc[c].request :
         /\ cyc[c].request[j].operation = "create"
         /\ "data" \in DOMAIN cyc[c].request[j]
         /\ cyc[c].request[k].operation = "delete"
         /\ "id" \in DOMAIN cyc[c].request[k]

\* ------------------------------------------------------------ a drain that reports failure: properties

\* in this step the categories or items drain of cycle c returns
\* { success: false, synced: 0 }
ReportsFailure(c, entity_type) ==
  /\ Answered(c, entity_type)
  /\ DrainOf(After(c), entity_type) = DrainResult(FALSE, 0)

\* C38: a categories or items drain that returns success = false with
\* synced = 0 has marked no row of sync_queue, also when it fails after the
\* batch call answered, while the echoed snapshots are applied
FailureMarksNothing ==
  [][\A c \in UsedSlots, t \in EntityTypes :
       ReportsFailure(c, t) =>
         \A i \in DOMAIN queue : queue'[i].synced = queue[i].synced]_vars

\* ------------------------------------------------------------ operations of other entity types: properties

\* the rows of sync_queue queued for a bill or an inventory item
OtherTypeRows(rows) ==
  {i \in DOMAIN rows : rows[i].entity_type \in {"bill", "inventory"}}

\* C39: a row of sync_queue whose entity_type is bill or inventory is in no
\* batch a drain reads, is changed by no step and so stays pending: it is
\* not synced and getPendingOperations returns it, whatever cycles have run
OtherTypesStayPending ==
  [][/\ \A i \in OtherTypeRows(queue) : queue'[i] = queue[i]
     /\ \A i \in OtherTypeRows(queue') :
          /\ ~queue'[i].synced
          /\ \A pending \in getPendingOperations(queue') : i \in Range(pending)
          /\ \A c \in UsedSlots :
               cyc'[c].pc \in {"categories", "items"} =>
                 i \notin Range(cyc'[c].batch)]_vars

\* a cycle has uploaded an item operation and recorded it while an
\* operation queued for a bill before it is still pending
BillOperationLeftBehind ==
  /\ lastSyncTime # Null
  /\ \E i, j \in DOMAIN queue :
       /\ i < j
       /\ queue[i].entity_type = "bill" /\ ~queue[i].synced
       /\ queue[j].entity_type = "item" /\ queue[j].synced

\* ------------------------------------------------------------ no stored user: properties

\* in this step cycle c goes on after await getUserData()
UserAnswered(c) == cyc[c].pc = "user" /\ cyc'[c] # cyc[c]

====
